---------------------------- MODULE Spec2Model ----------------------------
(***************************************************************************)
(* Disco worker-session runtime of TVM: the packed-argument codec          *)
(* (rpc_reference.h), the in-process message queue and the threaded        *)
(* session (threaded_session.cc), and the socket session with its relay    *)
(* (socket_session.cc).                                                    *)
(*                                                                         *)
(* One module, several specifications over one set of variables:           *)
(*   SpecCodec     encode / decode of one packed sequence                  *)
(*   SpecQueue     one DiscoThreadedMessageQueue, producer and consumer    *)
(*   SpecThreaded  a threaded session: controller and worker threads       *)
(*   SpecSocket    a socket session: controller, relays, workers           *)
(***************************************************************************)
EXTENDS Integers, Sequences, FiniteSets, TLC

(***************************************************************************)
(* Bounds of the model.                                                    *)
(***************************************************************************)
\* longest packed sequence the codec specification encodes
MaxArgs == 2
\* number of Send calls of the producer in the queue specification
MaxSends == 3
\* most workers of a threaded session
MaxWorkers == 2
\* most worker groups a session is asked for
MaxGroups == 2
\* number of calls the controller makes on a threaded session
MaxOps == 3
MaxNodes == 3
MaxWorkersPerNode == 2
MaxSocketWorkers == 4
MaxSocketOps == 2
MaxShutdownOps == 1
MaxRelayOps == 2
MaxForwardOps == 2
MaxEntryNodes == 2
MaxDebugOps == 3
MaxShutdowns == 2
MaxAddressingOps == 1
\* most workers and number of calls in the cross-group specification
MaxGroupWorkers == 4
MaxGroupOps == 3

(***************************************************************************)
(* Program constants.                                                      *)
(***************************************************************************)
\* ffi::TypeIndex, the type tags SendPackedSeq / RecvPackedSeq switch on
TypeIndex ==
  [ kTVMFFINone |-> 0, kTVMFFIInt |-> 1, kTVMFFIBool |-> 2, kTVMFFIFloat |-> 3,
    kTVMFFIOpaquePtr |-> 4, kTVMFFIDataType |-> 5, kTVMFFIDevice |-> 6,
    kTVMFFIDLTensorPtr |-> 7, kTVMFFIRawStr |-> 8, kTVMFFIByteArrayPtr |-> 9,
    kTVMFFIObjectRValueRef |-> 10, kTVMFFIStaticObjectBegin |-> 64,
    kTVMFFIFunction |-> 68, kTVMFFINDArray |-> 70, kTVMFFIModule |-> 73 ]

\* enum class RPCCode : int
kReturn == 4
kException == 5

\* sizeof of the types the channel writes and reads
SizeofInt32 == 4
SizeofInt64 == 8
SizeofRPCCode == 4
SizeofDLDataType == 4
SizeofDLDevice == 8

(***************************************************************************)
(* Little-endian fixed-width integers: what channel->Write<T> /            *)
(* channel->Read<T> put on and take off the byte stream.                   *)
(***************************************************************************)
RECURSIVE ToBytes(_, _)
ToBytes(v, n) ==
  IF n = 0 THEN <<>> ELSE <<v % 256>> \o ToBytes(v \div 256, n - 1)

RECURSIVE FromBytesU(_)
FromBytesU(bs) ==
  IF bs = <<>> THEN 0 ELSE Head(bs) + 256 * FromBytesU(Tail(bs))

RECURSIVE FromBytesS(_)
FromBytesS(bs) ==
  IF Len(bs) = 1
    THEN (IF bs[1] >= 128 THEN bs[1] - 256 ELSE bs[1])
    ELSE Head(bs) + 256 * FromBytesS(Tail(bs))

\* the bytes buf[off+1 .. off+n] (off counts bytes already consumed)
Slice(buf, off, n) == SubSeq(buf, off + 1, off + n)

\* DLDataType {uint8 code; uint8 bits; uint16 lanes}
DTypeBytes(dt) == ToBytes(dt.code, 1) \o ToBytes(dt.bits, 1) \o ToBytes(dt.lanes, 2)
DTypeOf_LanesOneByte(bs) == [code |-> bs[1], bits |-> bs[2], lanes |-> bs[3]]
DTypeOf(bs) ==
  [code |-> bs[1], bits |-> bs[2], lanes |-> FromBytesU(SubSeq(bs, 3, 4))]

\* DLDevice {int32 device_type; int32 device_id}
DeviceBytes(dev) ==
  ToBytes(dev.device_type, SizeofInt32) \o ToBytes(dev.device_id, SizeofInt32)
DeviceOf(bs) ==
  [device_type |-> FromBytesS(SubSeq(bs, 1, 4)),
   device_id |-> FromBytesS(SubSeq(bs, 5, 8))]

RECURSIVE ShapeBytes(_)
ShapeBytes(shape) ==
  IF shape = <<>> THEN <<>>
  ELSE ToBytes(Head(shape), SizeofInt64) \o ShapeBytes(Tail(shape))

RECURSIVE ShapeOf(_, _)
ShapeOf(bs, ndim) ==
  IF ndim <= 0 THEN <<>>
  ELSE <<FromBytesS(SubSeq(bs, 1, SizeofInt64))>>
       \o ShapeOf(SubSeq(bs, SizeofInt64 + 1, Len(bs)), ndim - 1)

\* RPCReference::StrLength: bytes before the first NUL of a C string
RECURSIVE StrLength(_)
StrLength(str) ==
  IF str = <<>> \/ Head(str) = 0 THEN 0 ELSE 1 + StrLength(Tail(str))

(***************************************************************************)
(* Argument values (TVMFFIAny): records keyed by type_index.               *)
(*   none                 [type_index]                                     *)
(*   bool / int / float   [type_index, v_int64]   (the 64-bit union word)  *)
(*   opaque handle        [type_index, v_ptr]                              *)
(*   dtype                [type_index, v_dtype]                            *)
(*   device               [type_index, v_device]                           *)
(*   function / module    [type_index, v_obj]                              *)
(*   tensor descriptor    [type_index, tensor]                             *)
(*   raw string           [type_index, v_c_str]   (bytes, NUL-terminated)  *)
(*   byte buffer          [type_index, bytes]                              *)
(*   any other tag        [type_index, obj]                                *)
(***************************************************************************)
NoStrides == <<>>

AnyNone == [type_index |-> TypeIndex.kTVMFFINone]
AnyInt(v) == [type_index |-> TypeIndex.kTVMFFIInt, v_int64 |-> v]
AnyBool(b) == [type_index |-> TypeIndex.kTVMFFIBool, v_int64 |-> b]
AnyFloat(bits) == [type_index |-> TypeIndex.kTVMFFIFloat, v_int64 |-> bits]
AnyRawStr(s) == [type_index |-> TypeIndex.kTVMFFIRawStr, v_c_str |-> s \o <<0>>]
AnyBytes(bs) == [type_index |-> TypeIndex.kTVMFFIByteArrayPtr, bytes |-> bs]

IsInt64Tag(t) ==
  t \in {TypeIndex.kTVMFFIBool, TypeIndex.kTVMFFIInt, TypeIndex.kTVMFFIFloat}

IsObjHandleTag(t) == t \in {TypeIndex.kTVMFFIFunction, TypeIndex.kTVMFFIModule}

\* DiscoProtocol::WriteFFIAny / ReadFFIAny, the generic object codec
WriteFFIAny(arg) == ToBytes(Len(arg.obj), SizeofInt64) \o arg.obj

ReadFFIAny(buf, off, t) ==
  LET len == FromBytesU(Slice(buf, off, SizeofInt64))
  IN  [arg |-> [type_index |-> t, obj |-> Slice(buf, off + SizeofInt64, len)],
       off |-> off + SizeofInt64 + len, status |-> "kSuccess"]

\* RPCReference::SendDLTensor
SendDLTensor(arr) ==
  [bytes |-> ToBytes(arr.data, SizeofInt64)
             \o DeviceBytes(arr.device)
             \o ToBytes(arr.ndim, SizeofInt32)
             \o DTypeBytes(arr.dtype)
             \o ShapeBytes(SubSeq(arr.shape, 1, arr.ndim))
             \o (IF arr.strides # NoStrides THEN <<>>
                 ELSE ToBytes(arr.byte_offset, SizeofInt64)),
   status |-> IF arr.strides # NoStrides
                THEN "kInvalidDLTensorFieldStride" ELSE "kSuccess"]

ReceiveDLTensor_Int32Offset(buf, off) ==
  LET handle == FromBytesU(Slice(buf, off, SizeofInt64))
      o1     == off + SizeofInt64
      device == DeviceOf(Slice(buf, o1, SizeofDLDevice))
      o2     == o1 + SizeofDLDevice
      ndim   == FromBytesS(Slice(buf, o2, SizeofInt32))
      o3     == o2 + SizeofInt32
      dtype  == DTypeOf(Slice(buf, o3, SizeofDLDataType))
      o4     == o3 + SizeofDLDataType
      shape  == ShapeOf(Slice(buf, o4, SizeofInt64 * ndim), ndim)
      o5     == o4 + SizeofInt64 * ndim
  IN  [tensor |-> [data |-> handle, device |-> device, ndim |-> ndim,
                   dtype |-> dtype, shape |-> shape, strides |-> NoStrides,
                   byte_offset |-> FromBytesU(Slice(buf, o5, SizeofInt64))],
       off |-> o5 + SizeofInt32]

\* RPCReference::ReceiveDLTensor
ReceiveDLTensor(buf, off) ==
  LET handle == FromBytesU(Slice(buf, off, SizeofInt64))
      o1     == off + SizeofInt64
      device == DeviceOf(Slice(buf, o1, SizeofDLDevice))
      o2     == o1 + SizeofDLDevice
      ndim   == FromBytesS(Slice(buf, o2, SizeofInt32))
      o3     == o2 + SizeofInt32
      dtype  == DTypeOf(Slice(buf, o3, SizeofDLDataType))
      o4     == o3 + SizeofDLDataType
      shape  == ShapeOf(Slice(buf, o4, SizeofInt64 * ndim), ndim)
      o5     == o4 + SizeofInt64 * ndim
  IN  [tensor |-> [data |-> handle, device |-> device, ndim |-> ndim,
                   dtype |-> dtype, shape |-> shape, strides |-> NoStrides,
                   byte_offset |-> FromBytesU(Slice(buf, o5, SizeofInt64))],
       off |-> o5 + SizeofInt64]

\* one iteration of the loop of SendPackedSeq: the tag, then the payload
SendArg(arg, client_mode) ==
  LET t   == arg.type_index
      tag == ToBytes(t, SizeofInt32)
      ok(bs) == [bytes |-> tag \o bs, status |-> "kSuccess"]
  IN  CASE t = TypeIndex.kTVMFFINone -> ok(<<>>)
        [] IsInt64Tag(t) -> ok(ToBytes(arg.v_int64, SizeofInt64))
        [] t = TypeIndex.kTVMFFIOpaquePtr -> ok(ToBytes(arg.v_ptr, SizeofInt64))
        [] t = TypeIndex.kTVMFFIDataType ->
             ok(DTypeBytes(arg.v_dtype) \o ToBytes(0, SizeofInt32))
        [] t = TypeIndex.kTVMFFIDevice -> ok(DeviceBytes(arg.v_device))
        [] IsObjHandleTag(t) ->
             IF ~client_mode
               THEN [bytes |-> tag, status |-> "kInvalidTypeCodeObject"]
               ELSE ok(ToBytes(arg.v_obj, SizeofInt64))
        [] t = TypeIndex.kTVMFFINDArray ->
             [bytes |-> tag, status |-> "kInvalidTypeCodeNDArray"]
        [] t = TypeIndex.kTVMFFIDLTensorPtr ->
             LET r == SendDLTensor(arg.tensor)
             IN  [bytes |-> tag \o r.bytes, status |-> r.status]
        [] t = TypeIndex.kTVMFFIRawStr ->
             LET len == StrLength(arg.v_c_str)
             IN  ok(ToBytes(len, SizeofInt64) \o SubSeq(arg.v_c_str, 1, len))
        [] t = TypeIndex.kTVMFFIByteArrayPtr ->
             ok(ToBytes(Len(arg.bytes), SizeofInt64) \o arg.bytes)
        [] OTHER -> ok(WriteFFIAny(arg))

\* the bytes written so far followed by what the rest of the call writes
Written(bytes, rest) == [bytes |-> bytes \o rest.bytes, status |-> rest.status]

\* the loop of SendPackedSeq from argument i on; ThrowError ends it
RECURSIVE SendArgs(_, _, _)
SendArgsAfter(one, packed_args, i, client_mode) ==
  IF one.status # "kSuccess" THEN one
  ELSE Written(one.bytes, SendArgs(packed_args, i + 1, client_mode))

SendArgs(packed_args, i, client_mode) ==
  IF i > Len(packed_args) THEN [bytes |-> <<>>, status |-> "kSuccess"]
  ELSE SendArgsAfter(SendArg(packed_args[i], client_mode), packed_args, i,
                     client_mode)

\* RPCReference::SendPackedSeq: num_args, then every argument in order;
\* ThrowError ends the encoding with the status it was given
SendPackedSeq(packed_args, client_mode) ==
  Written(ToBytes(Len(packed_args), SizeofInt32),
          SendArgs(packed_args, 1, client_mode))

\* one iteration of the loop of RecvPackedSeq, reading at offset off
RecvArg(buf, off) ==
  LET t  == FromBytesS(Slice(buf, off, SizeofInt32))
      o  == off + SizeofInt32
      ok(a, no) == [arg |-> a, off |-> no, status |-> "kSuccess"]
  IN  CASE t = TypeIndex.kTVMFFINone -> ok([type_index |-> t], o)
        [] IsInt64Tag(t) ->
             ok([type_index |-> t,
                 v_int64 |-> FromBytesS(Slice(buf, o, SizeofInt64))],
                o + SizeofInt64)
        [] t = TypeIndex.kTVMFFIOpaquePtr ->
             ok([type_index |-> t,
                 v_ptr |-> FromBytesU(Slice(buf, o, SizeofInt64))],
                o + SizeofInt64)
        [] t = TypeIndex.kTVMFFIDataType ->
             ok([type_index |-> t,
                 v_dtype |-> DTypeOf(Slice(buf, o, SizeofDLDataType))],
                o + SizeofDLDataType + SizeofInt32)
        [] t = TypeIndex.kTVMFFIDevice ->
             ok([type_index |-> t,
                 v_device |-> DeviceOf(Slice(buf, o, SizeofDLDevice))],
                o + SizeofDLDevice)
        [] IsObjHandleTag(t) ->
             ok([type_index |-> t,
                 v_obj |-> FromBytesU(Slice(buf, o, SizeofInt64))],
                o + SizeofInt64)
        [] t = TypeIndex.kTVMFFIRawStr ->
             LET len == FromBytesU(Slice(buf, o, SizeofInt64))
             IN  ok([type_index |-> t,
                     v_c_str |-> Slice(buf, o + SizeofInt64, len) \o <<0>>],
                    o + SizeofInt64 + len)
        [] t = TypeIndex.kTVMFFIByteArrayPtr ->
             LET len == FromBytesU(Slice(buf, o, SizeofInt64))
             IN  ok([type_index |-> t,
                     bytes |-> Slice(buf, o + SizeofInt64, len)],
                    o + SizeofInt64 + len)
        [] t = TypeIndex.kTVMFFIDLTensorPtr ->
             LET r == ReceiveDLTensor(buf, o)
             IN  ok([type_index |-> t, tensor |-> r.tensor], r.off)
        [] OTHER ->
             IF t >= TypeIndex.kTVMFFIStaticObjectBegin
               THEN ReadFFIAny(buf, o, t)
               ELSE [arg |-> [type_index |-> t], off |-> o,
                     status |-> "kUnknownTypeIndex"]

\* the argument decoded so far followed by what the rest of the call decodes
Decoded(arg, rest) ==
  [args |-> <<arg>> \o rest.args, off |-> rest.off, status |-> rest.status]

\* the loop of RecvPackedSeq with n arguments left; ThrowError ends it
RECURSIVE RecvArgs(_, _, _)
RecvArgsAfter(one, buf, n) ==
  IF one.status # "kSuccess"
    THEN [args |-> <<one.arg>>, off |-> one.off, status |-> one.status]
    ELSE Decoded(one.arg, RecvArgs(buf, one.off, n - 1))

RecvArgs_IgnoreStatus(buf, off, n) ==
  IF n <= 0 THEN [args |-> <<>>, off |-> off, status |-> "kSuccess"]
  ELSE Decoded(RecvArg(buf, off).arg,
               RecvArgs(buf, RecvArg(buf, off).off, n - 1))

RecvArgs(buf, off, n) ==
  IF n <= 0 THEN [args |-> <<>>, off |-> off, status |-> "kSuccess"]
  ELSE RecvArgsAfter(RecvArg(buf, off), buf, n)

\* RPCReference::RecvPackedSeq reading buf from offset off: the decoded
\* sequence, the offset after it, and the status ThrowError was given
RecvPackedSeq(buf, off) ==
  LET num_args == FromBytesS(Slice(buf, off, SizeofInt32))
  IN  RecvArgs(buf, off + SizeofInt32, num_args)

(***************************************************************************)
(* Packets: [u64 packet_nbytes][RPCCode code][payload].                    *)
(***************************************************************************)
\* PackedSeqNumBytesGetter, the channel of the counting pass: Write<T> adds
\* sizeof(T) to num_bytes_, WriteArray<T> adds sizeof(T) * num, WriteFFIAny
\* adds what the real channel says the object takes; no byte is stored
Counted(n, status) == [num_bytes |-> n, status |-> status]

\* DiscoProtocol::GetFFIAnyProtocolBytes
GetFFIAnyProtocolBytes(arg) == SizeofInt64 + Len(arg.obj)

\* RPCReference::SendDLTensor on the counting channel
CountDLTensor(arr) ==
  Counted(SizeofInt64 + SizeofDLDevice + SizeofInt32 + SizeofDLDataType
            + SizeofInt64 * arr.ndim
            + (IF arr.strides # NoStrides THEN 0 ELSE SizeofInt64),
          IF arr.strides # NoStrides
            THEN "kInvalidDLTensorFieldStride" ELSE "kSuccess")

CountArg_NoPadding(arg, client_mode) ==
  LET t == arg.type_index
      ok(n) == Counted(SizeofInt32 + n, "kSuccess")
  IN  CASE t = TypeIndex.kTVMFFINone -> ok(0)
        [] IsInt64Tag(t) -> ok(SizeofInt64)
        [] t = TypeIndex.kTVMFFIOpaquePtr -> ok(SizeofInt64)
        [] t = TypeIndex.kTVMFFIDataType -> ok(SizeofDLDataType)
        [] t = TypeIndex.kTVMFFIDevice -> ok(SizeofDLDevice)
        [] IsObjHandleTag(t) ->
             IF ~client_mode
               THEN Counted(SizeofInt32, "kInvalidTypeCodeObject")
               ELSE ok(SizeofInt64)
        [] t = TypeIndex.kTVMFFINDArray ->
             Counted(SizeofInt32, "kInvalidTypeCodeNDArray")
        [] t = TypeIndex.kTVMFFIDLTensorPtr ->
             Counted(SizeofInt32 + CountDLTensor(arg.tensor).num_bytes,
                     CountDLTensor(arg.tensor).status)
        [] t = TypeIndex.kTVMFFIRawStr ->
             ok(SizeofInt64 + StrLength(arg.v_c_str))
        [] t = TypeIndex.kTVMFFIByteArrayPtr ->
             ok(SizeofInt64 + Len(arg.bytes))
        [] OTHER -> ok(GetFFIAnyProtocolBytes(arg))

\* one iteration of the loop of SendPackedSeq on the counting channel
CountArg(arg, client_mode) ==
  LET t == arg.type_index
      ok(n) == Counted(SizeofInt32 + n, "kSuccess")
  IN  CASE t = TypeIndex.kTVMFFINone -> ok(0)
        [] IsInt64Tag(t) -> ok(SizeofInt64)
        [] t = TypeIndex.kTVMFFIOpaquePtr -> ok(SizeofInt64)
        [] t = TypeIndex.kTVMFFIDataType -> ok(SizeofDLDataType + SizeofInt32)
        [] t = TypeIndex.kTVMFFIDevice -> ok(SizeofDLDevice)
        [] IsObjHandleTag(t) ->
             IF ~client_mode
               THEN Counted(SizeofInt32, "kInvalidTypeCodeObject")
               ELSE ok(SizeofInt64)
        [] t = TypeIndex.kTVMFFINDArray ->
             Counted(SizeofInt32, "kInvalidTypeCodeNDArray")
        [] t = TypeIndex.kTVMFFIDLTensorPtr ->
             Counted(SizeofInt32 + CountDLTensor(arg.tensor).num_bytes,
                     CountDLTensor(arg.tensor).status)
        [] t = TypeIndex.kTVMFFIRawStr ->
             ok(SizeofInt64 + StrLength(arg.v_c_str))
        [] t = TypeIndex.kTVMFFIByteArrayPtr ->
             ok(SizeofInt64 + Len(arg.bytes))
        [] OTHER -> ok(GetFFIAnyProtocolBytes(arg))

\* num_bytes_ so far plus what the rest of the call adds
CountedMore(n, rest) == Counted(n + rest.num_bytes, rest.status)

\* the loop of SendPackedSeq on the counting channel from argument i on
RECURSIVE CountArgs(_, _, _)
CountArgsAfter(one, packed_args, i, client_mode) ==
  IF one.status # "kSuccess" THEN one
  ELSE CountedMore(one.num_bytes, CountArgs(packed_args, i + 1, client_mode))

CountArgs(packed_args, i, client_mode) ==
  IF i > Len(packed_args) THEN Counted(0, "kSuccess")
  ELSE CountArgsAfter(CountArg(packed_args[i], client_mode), packed_args, i,
                      client_mode)

\* RPCReference::PackedSeqGetNumBytes: SendPackedSeq run on a
\* PackedSeqNumBytesGetter, then getter.num_bytes()
PackedSeqGetNumBytes(packed_args, client_mode) ==
  CountedMore(SizeofInt32, CountArgs(packed_args, 1, client_mode))

\* RPCReference::ReturnPackedSeq once the counting pass returned n: the
\* length, the code, then the real SendPackedSeq pass; a ThrowError of the
\* counting pass leaves the channel untouched
ReturnPacket(n, packed_args) ==
  IF n.status # "kSuccess" THEN [bytes |-> <<>>, status |-> n.status]
  ELSE [bytes |-> ToBytes(SizeofRPCCode + n.num_bytes, SizeofInt64)
                  \o ToBytes(kReturn, SizeofRPCCode)
                  \o SendPackedSeq(packed_args, FALSE).bytes,
        status |-> "kSuccess"]

\* RPCReference::ReturnPackedSeq: the bytes it writes to the channel
ReturnPackedSeq(packed_args) ==
  ReturnPacket(PackedSeqGetNumBytes(packed_args, FALSE), packed_args)

\* RPCReference::ReturnException: the bytes it writes to the channel
ReturnException(msg) ==
  ToBytes(SizeofRPCCode + SizeofInt32 + SizeofInt32 + SizeofInt64
            + StrLength(msg), SizeofInt64)
  \o ToBytes(kException, SizeofRPCCode)
  \o ToBytes(1, SizeofInt32)
  \o ToBytes(TypeIndex.kTVMFFIRawStr, SizeofInt32)
  \o ToBytes(StrLength(msg), SizeofInt64)
  \o SubSeq(msg, 1, StrLength(msg))

ReturnVoid_NoNumArgs ==
  ToBytes(SizeofRPCCode + SizeofInt32, SizeofInt64)
  \o ToBytes(kReturn, SizeofRPCCode)
  \o ToBytes(TypeIndex.kTVMFFINone, SizeofInt32)

\* RPCReference::ReturnVoid: the bytes it writes to the channel
ReturnVoid ==
  ToBytes(SizeofRPCCode + SizeofInt32 + SizeofInt32, SizeofInt64)
  \o ToBytes(kReturn, SizeofRPCCode)
  \o ToBytes(1, SizeofInt32)
  \o ToBytes(TypeIndex.kTVMFFINone, SizeofInt32)

(***************************************************************************)
(* DiscoThreadedMessageQueue: its fields as a record, its methods as       *)
(* operators from a queue to the queue after the call.                     *)
(***************************************************************************)
\* support::RingBuffer::Write / Read: a FIFO of bytes
RingWrite(ring, data) == ring \o data
RingRead(ring, size) ==
  [data |-> SubSeq(ring, 1, size), ring |-> SubSeq(ring, size + 1, Len(ring))]

NewQueue ==
  [write_buffer |-> <<>>, read_buffer |-> <<>>, read_offset |-> 0,
   dequeue_waiting |-> FALSE, msg_cnt |-> 0, ring_buffer |-> <<>>,
   arena |-> <<>>]

\* DiscoProtocol::RecycleAll: every allocation of the arena is released
RecycleAll(q) == [q EXCEPT !.arena = <<>>]

\* DiscoProtocol::ArenaAlloc as RecvPackedSeq calls it: the argument array
\* and every variable-length payload it points to are allocated in the arena
ArenaAlloc(q, args) == [q EXCEPT !.arena = @ \o args]

\* DiscoThreadedMessageQueue::Write
QueueWrite(q, data) == [q EXCEPT !.write_buffer = @ \o data]

\* DiscoThreadedMessageQueue::Read of size bytes: memcpy, then the offset
QueueRead(q, size) ==
  [data |-> Slice(q.read_buffer, q.read_offset, size),
   q |-> [q EXCEPT !.read_offset = @ + size]]

CommitLocked_NoCount(q) ==
  [q EXCEPT !.ring_buffer = RingWrite(@, q.write_buffer)]

CommitLocked_Prepend(q) ==
  [q EXCEPT !.msg_cnt = @ + 1,
            !.ring_buffer = q.write_buffer \o @]

\* CommitSendAndNotifyEnqueue, the block under lock_guard
CommitLocked(q) ==
  [q EXCEPT !.msg_cnt = @ + 1,
            !.ring_buffer = RingWrite(@, q.write_buffer)]

CommitClear_Keep(q) == q
\* CommitSendAndNotifyEnqueue, after the notify: write_buffer_.clear()
CommitClear(q) == [q EXCEPT !.write_buffer = <<>>]

DequeueLocked_LengthIncluded(q) ==
  LET len    == RingRead(q.ring_buffer, SizeofInt64)
      packet_nbytes == FromBytesU(len.data)
      packet == RingRead(q.ring_buffer, packet_nbytes)
  IN  [q EXCEPT !.dequeue_waiting = FALSE,
                !.msg_cnt = @ - 1,
                !.read_buffer = packet.data,
                !.ring_buffer = packet.ring,
                !.read_offset = 0]

\* DequeueNextPacket, the block under unique_lock once the wait is over
DequeueLocked(q) ==
  LET len    == RingRead(q.ring_buffer, SizeofInt64)
      packet_nbytes == FromBytesU(len.data)
      packet == RingRead(len.ring, packet_nbytes)
  IN  [q EXCEPT !.dequeue_waiting = FALSE,
                !.msg_cnt = @ - 1,
                !.read_buffer = packet.data,
                !.ring_buffer = packet.ring,
                !.read_offset = 0]

DequeueReadCode_NoRecycle(q) == QueueRead(q, SizeofRPCCode).q

\* DequeueNextPacket, after the lock: RecycleAll(), then Read(&code)
DequeueReadCode(q) == QueueRead(RecycleAll(q), SizeofRPCCode).q

\* Recv, after DequeueNextPacket: RecvPackedSeq on the private read buffer
Returned(q, r) ==
  [args |-> r.args, status |-> r.status,
   q |-> ArenaAlloc([q EXCEPT !.read_offset = r.off], r.args)]

RecvDecode_KeepOffset(q) ==
  [Returned(q, RecvPackedSeq(q.read_buffer, q.read_offset))
     EXCEPT !.q.read_offset = q.read_offset]

RecvDecode(q) == Returned(q, RecvPackedSeq(q.read_buffer, q.read_offset))

\* Send once ReturnPackedSeq wrote packet (or threw): the commit
SendCommit(q, packet) ==
  IF packet.status # "kSuccess" THEN q
  ELSE CommitClear(CommitLocked(QueueWrite(q, packet.bytes)))

QueueSend_Front(q, packed_args) ==
  [q EXCEPT !.msg_cnt = @ + 1,
            !.ring_buffer = ReturnPackedSeq(packed_args).bytes \o @]

\* a whole Send(args): ReturnPackedSeq into write_buffer_, then the commit
QueueSend(q, packed_args) == SendCommit(q, ReturnPackedSeq(packed_args))

\* a whole Recv() once msg_cnt_ > 0
QueueRecv(q) == RecvDecode(DequeueReadCode(DequeueLocked(q)))

(***************************************************************************)
(* DiscoThreadChannel: two queues, one per direction.                      *)
(***************************************************************************)
NewThreadChannel ==
  [controler_to_worker_ |-> NewQueue, worker_to_controler_ |-> NewQueue]

\* DiscoThreadChannel::Send
ChannelSend(ch, packed_args) ==
  [ch EXCEPT !.controler_to_worker_ = QueueSend(@, packed_args)]

\* DiscoThreadChannel::Recv: can return once the request queue holds a packet
ChannelCanRecv(ch) == ch.controler_to_worker_.msg_cnt > 0
ChannelRecvOf(ch, r) ==
  [args |-> r.args, ch |-> [ch EXCEPT !.controler_to_worker_ = r.q]]
ChannelRecv(ch) == ChannelRecvOf(ch, QueueRecv(ch.controler_to_worker_))

ChannelReply_RequestQueue(ch, packed_args) ==
  [ch EXCEPT !.controler_to_worker_ = QueueSend(@, packed_args)]

\* DiscoThreadChannel::Reply
ChannelReply(ch, packed_args) ==
  [ch EXCEPT !.worker_to_controler_ = QueueSend(@, packed_args)]

\* DiscoThreadChannel::RecvReply: can return once the reply queue holds a packet
ChannelCanRecvReply(ch) == ch.worker_to_controler_.msg_cnt > 0
ChannelRecvReplyOf(ch, r) ==
  [args |-> r.args, ch |-> [ch EXCEPT !.worker_to_controler_ = r.q]]
ChannelRecvReply(ch) == ChannelRecvReplyOf(ch, QueueRecv(ch.worker_to_controler_))

(***************************************************************************)
(* DiscoWorker: the commands of the receive loop and what executing one    *)
(* does to the worker.  A command is a packed sequence that starts with    *)
(* the action and a register id.                                           *)
(***************************************************************************)
\* enum class DiscoAction
DiscoAction ==
  [ kShutDown |-> 0, kKillReg |-> 1, kGetGlobalFunc |-> 2, kCallPacked |-> 3,
    kSyncWorker |-> 4, kCopyFromWorker0 |-> 5, kCopyToWorker0 |-> 6,
    kDebugGetFromRemote |-> 7, kDebugSetRegister |-> 8 ]

\* enum class DiscoSocketAction { kShutdown = DiscoAction::kShutDown, kSend, kReceive }
DiscoSocketAction ==
  [ kShutdown |-> DiscoAction.kShutDown,
    kSend |-> DiscoAction.kShutDown + 1,
    kReceive |-> DiscoAction.kShutDown + 2 ]

\* the functions a kCallPacked command can name (the Execute collaborator):
\* store the argument in the register, reply the request back (echo),
\* runtime.disco.socket_session_init_workers, and one that raises
Func == [store |-> 100, echo |-> 101, socket_session_init_workers |-> 102,
         raise |-> 103]

IntOf(any) == any.v_int64

CmdShutDown == <<AnyInt(DiscoAction.kShutDown), AnyInt(0)>>
CmdStore(reg_id, v) ==
  <<AnyInt(DiscoAction.kCallPacked), AnyInt(reg_id), AnyInt(Func.store), AnyInt(v)>>
CmdEcho(v) ==
  <<AnyInt(DiscoAction.kCallPacked), AnyInt(0), AnyInt(Func.echo), AnyInt(v)>>
CmdInitWorkers(num_nodes, node_id, num_groups, num_workers_per_node) ==
  <<AnyInt(DiscoAction.kCallPacked), AnyInt(0),
    AnyInt(Func.socket_session_init_workers), AnyInt(num_nodes),
    AnyInt(node_id), AnyInt(num_groups), AnyInt(num_workers_per_node)>>
CmdRaise ==
  <<AnyInt(DiscoAction.kCallPacked), AnyInt(0), AnyInt(Func.raise)>>
CmdSyncWorker(worker_id) ==
  <<AnyInt(DiscoAction.kSyncWorker), AnyInt(0), AnyInt(worker_id)>>
CmdDebugGet(reg_id, worker_id) ==
  <<AnyInt(DiscoAction.kDebugGetFromRemote), AnyInt(reg_id), AnyInt(worker_id)>>
CmdDebugSet(reg_id, worker_id, value) ==
  <<AnyInt(DiscoAction.kDebugSetRegister), AnyInt(reg_id), AnyInt(worker_id), value>>

\* DiscoWorker(worker_id, num_workers, num_groups, worker_zero_data, channel)
NewWorker(worker_id, num_workers, num_groups) ==
  [worker_id |-> worker_id, num_workers |-> num_workers,
   num_groups |-> num_groups, register_file |-> <<>>]

\* DiscoWorker::SetRegister: the register file grows to hold reg_id
SetRegister(worker, reg_id, value) ==
  LET grown == worker.register_file
               \o [k \in 1..(reg_id + 1 - Len(worker.register_file)) |-> AnyNone]
  IN  [worker EXCEPT !.register_file = [grown EXCEPT ![reg_id + 1] = value]]

\* register_file.at(reg_id): the value, or std::out_of_range
OutOfRange == [type_index |-> -1, what |-> "std::out_of_range"]
HasRegister(worker, reg_id) == reg_id >= 0 /\ reg_id < Len(worker.register_file)
RegisterAt(worker, reg_id) == worker.register_file[reg_id + 1]

InitWorkers_AddNodeId(worker, num_nodes, node_id, num_groups, num_workers_per_node) ==
  [worker EXCEPT !.num_groups = num_groups,
                 !.worker_id = @ + node_id,
                 !.num_workers = num_nodes * num_workers_per_node]

\* runtime.disco.socket_session_init_workers, run on the worker's thread
InitWorkers(worker, num_nodes, node_id, num_groups, num_workers_per_node) ==
  [worker EXCEPT !.num_groups = num_groups,
                 !.worker_id = @ + node_id * num_workers_per_node,
                 !.num_workers = num_nodes * num_workers_per_node]

CmdAction(cmd) == IntOf(cmd[1])
CmdReg(cmd) == IntOf(cmd[2])
CmdAddressed(worker, cmd) == IntOf(cmd[3]) = worker.worker_id

NoReply == <<[no_reply |-> TRUE]>>

\* what() of the exception a raising function throws, and the packed
\* sequence the loop hands to channel->Reply when it has caught it
ErrorMessage == <<101, 114, 114>>
ExceptionReply == <<AnyRawStr(ErrorMessage)>>

\* the worker after executing cmd
WorkerAfter(worker, cmd) ==
  LET a == CmdAction(cmd)
  IN  CASE a = DiscoAction.kCallPacked /\ IntOf(cmd[3]) = Func.store ->
             SetRegister(worker, CmdReg(cmd), cmd[4])
        [] a = DiscoAction.kCallPacked
             /\ IntOf(cmd[3]) = Func.socket_session_init_workers ->
             InitWorkers(worker, IntOf(cmd[4]), IntOf(cmd[5]), IntOf(cmd[6]),
                         IntOf(cmd[7]))
        [] a = DiscoAction.kDebugSetRegister /\ CmdAddressed(worker, cmd) ->
             SetRegister(worker, CmdReg(cmd), cmd[4])
        [] OTHER -> worker

\* the packet the worker puts on the reply side while executing cmd
WorkerReply(worker, cmd) ==
  LET a == CmdAction(cmd)
  IN  CASE a = DiscoAction.kCallPacked /\ IntOf(cmd[3]) = Func.echo -> cmd
        [] a = DiscoAction.kCallPacked /\ IntOf(cmd[3]) = Func.raise ->
             ExceptionReply
        [] a = DiscoAction.kSyncWorker /\ CmdAddressed(worker, cmd) ->
             <<AnyInt(DiscoAction.kSyncWorker), AnyInt(worker.worker_id)>>
        [] a = DiscoAction.kDebugGetFromRemote /\ CmdAddressed(worker, cmd) ->
             <<AnyInt(DiscoAction.kDebugGetFromRemote),
               IF HasRegister(worker, CmdReg(cmd))
                 THEN RegisterAt(worker, CmdReg(cmd)) ELSE AnyNone>>
        [] a = DiscoAction.kDebugSetRegister /\ CmdAddressed(worker, cmd) ->
             <<AnyInt(DiscoAction.kDebugSetRegister)>>
        [] OTHER -> NoReply

(***************************************************************************)
(* DiscoWorkerThread and ThreadedSessionObj.  A session is a record, its   *)
(* methods are operators from a session to the session after the call;    *)
(* worker_id counts from 0 and workers_ is indexed from 1.                 *)
(***************************************************************************)
\* DiscoWorkerThread(worker_id, num_workers, num_groups, worker_zero_data):
\* a fresh channel, the worker on it, and the thread running MainLoop
DiscoWorkerThread(worker_id, num_workers, num_groups) ==
  [channel |-> NewThreadChannel,
   worker |-> NewWorker(worker_id, num_workers, num_groups),
   thread |-> "recv",          \* MainLoop: "recv", "exec", "done"
   cmd |-> <<>>]               \* the command MainLoop is executing

\* ThreadedSessionObj(num_workers, num_groups)
ThreadedSessionObj(num_workers, num_groups) ==
  [workers_ |-> [k \in 1..num_workers |->
                   DiscoWorkerThread(k - 1, num_workers, num_groups)]]

NoSession == [workers_ |-> <<>>]

ThreadedSessionCheck_Always(num_workers, num_group) == TRUE

\* Session::ThreadedSession: CHECK_EQ(num_workers % num_group, 0)
ThreadedSessionCheck(num_workers, num_group) == num_workers % num_group = 0

\* ThreadedSessionObj::GetNumWorkers
GetNumWorkers(session) == Len(session.workers_)

\* workers_.at(worker_id) throws std::out_of_range outside the vector
ValidWorker(session, worker_id) ==
  worker_id >= 0 /\ worker_id < Len(session.workers_)

BroadcastPacked_SkipLast(session, packed_args) ==
  [session EXCEPT !.workers_ =
     [k \in DOMAIN @ |->
        IF k > 1 /\ k = Len(session.workers_) THEN @[k]
        ELSE [@[k] EXCEPT !.channel = ChannelSend(@, packed_args)]]]

\* ThreadedSessionObj::BroadcastPacked
BroadcastPacked(session, packed_args) ==
  [session EXCEPT !.workers_ =
     [k \in DOMAIN @ |->
        [@[k] EXCEPT !.channel = ChannelSend(@, packed_args)]]]

\* ThreadedSessionObj::SendPacked
SendPacked(session, worker_id, packed_args) ==
  [session EXCEPT !.workers_[worker_id + 1].channel = ChannelSend(@, packed_args)]

\* ThreadedSessionObj::RecvReplyPacked
CanRecvReplyPacked(session, worker_id) ==
  ChannelCanRecvReply(session.workers_[worker_id + 1].channel)
RecvReplyPackedOf(session, worker_id, r) ==
  [args |-> r.args,
   session |-> [session EXCEPT !.workers_[worker_id + 1].channel = r.ch]]
RecvReplyPacked(session, worker_id) ==
  RecvReplyPackedOf(session, worker_id,
                    ChannelRecvReply(session.workers_[worker_id + 1].channel))

\* BcastSessionObj::SyncWorker, first half: broadcast the sync command
SyncWorkerSend(session, worker_id) ==
  BroadcastPacked(session, CmdSyncWorker(worker_id))

\* BcastSessionObj::SyncWorker, second half: the reply it insists on
SyncWorkerReplyOk(packed_args, worker_id) ==
  /\ Len(packed_args) = 2
  /\ IntOf(packed_args[1]) = DiscoAction.kSyncWorker
  /\ IntOf(packed_args[2]) = worker_id

\* ThreadedSessionObj::DebugGetFromRemote after SyncWorker:
\* workers_.at(worker_id).worker->register_file.at(reg_id)
DebugGetRead(session, reg_id, worker_id) ==
  LET worker == session.workers_[worker_id + 1].worker
  IN  IF HasRegister(worker, reg_id)
        THEN RegisterAt(worker, reg_id) ELSE OutOfRange

DebugSetWrite_AllWorkers(session, reg_id, value, worker_id) ==
  [session EXCEPT
     !.workers_ = [k \in DOMAIN @ |->
                     [@[k] EXCEPT !.worker = SetRegister(@, reg_id, value)]]]

DebugSetWrite_NextWorker(session, reg_id, value, worker_id) ==
  [session EXCEPT
     !.workers_[((worker_id + 1) % Len(session.workers_)) + 1].worker =
        SetRegister(@, reg_id, value)]

\* ThreadedSessionObj::DebugSetRegister after SyncWorker:
\* workers_.at(worker_id).worker->SetRegister(reg_id, value)
DebugSetWrite(session, reg_id, value, worker_id) ==
  [session EXCEPT !.workers_[worker_id + 1].worker = SetRegister(@, reg_id, value)]

\* BcastSessionObj::Shutdown: broadcast the shutdown command
SessionShutdown(session) == BroadcastPacked(session, CmdShutDown)

\* DiscoWorker::MainLoop, top of the loop: channel->Recv()
WorkerCanRecv(wt) == wt.thread = "recv" /\ ChannelCanRecv(wt.channel)
WorkerRecvOf(wt, r) ==
  [wt EXCEPT !.channel = r.ch, !.cmd = r.args, !.thread = "exec"]
WorkerRecv(wt) == WorkerRecvOf(wt, ChannelRecv(wt.channel))

\* DiscoWorker::MainLoop, the switch on the action
WorkerExecOf(wt, reply) ==
  [wt EXCEPT
     !.worker = WorkerAfter(@, wt.cmd),
     !.channel = IF reply = NoReply THEN @ ELSE ChannelReply(@, reply),
     !.thread = IF CmdAction(wt.cmd) = DiscoAction.kShutDown
                  THEN "done" ELSE "recv",
     !.cmd = <<>>]
WorkerExec(wt) == WorkerExecOf(wt, WorkerReply(wt.worker, wt.cmd))

(***************************************************************************)
(* Sockets and DiscoSocketChannel.  A TCPSocket is a copyable handle on a  *)
(* descriptor; net is what the controller process shares with the remote   *)
(* nodes: per connection the byte stream down to the node and the stream   *)
(* up from it, the controller's open descriptors, and whether a socket     *)
(* call failed.  Descriptor 0 is the listening socket, descriptor i the    *)
(* connection accepted i-th.                                               *)
(***************************************************************************)
TCPSocket(fd) == [sockfd |-> fd]
ClosedSocket == [sockfd |-> -1]
IsClosed(socket) == socket.sockfd = -1

\* Socket::Close: closing a handle that is already closed is fatal
SocketClose(net, socket) ==
  IF IsClosed(socket) \/ socket.sockfd \notin net.open
    THEN [net EXCEPT !.error = TRUE]
    ELSE [net EXCEPT !.open = @ \ {socket.sockfd}]

StreamSend_Front(net, socket, packed_args) ==
  IF socket.sockfd \notin net.open
    THEN [net EXCEPT !.error = TRUE]
    ELSE [net EXCEPT !.down[socket.sockfd] = ReturnPackedSeq(packed_args).bytes \o @]

\* DiscoSocketChannel::Send on the controller side: the framed packet is
\* written to the connection; writing to a closed descriptor fails
StreamSend(net, socket, packed_args) ==
  IF socket.sockfd \notin net.open
    THEN [net EXCEPT !.error = TRUE]
    ELSE [net EXCEPT !.down[socket.sockfd] = @ \o ReturnPackedSeq(packed_args).bytes]

\* DiscoSocketChannel::Recv / RecvReply: blocks until a packet has arrived
StreamCanRecv(bytes) == Len(bytes) >= SizeofInt64

\* the first packet of a stream, decoded, and the stream after it
StreamRecv(bytes) ==
  LET packet_nbytes == FromBytesU(SubSeq(bytes, 1, SizeofInt64))
  IN  [args |-> RecvPackedSeq(SubSeq(bytes, SizeofInt64 + 1,
                                     SizeofInt64 + packet_nbytes),
                              SizeofRPCCode).args,
       rest |-> SubSeq(bytes, SizeofInt64 + packet_nbytes + 1, Len(bytes))]

\* channel->Send(packet) for every channel from the i-th on
RECURSIVE SendEach(_, _, _, _)
SendEach(net, channels, i, packet) ==
  IF i > Len(channels) THEN net
  ELSE SendEach(StreamSend(net, channels[i], packet), channels, i + 1, packet)

\* socket.Close() for every socket from the i-th on
RECURSIVE CloseEach(_, _, _)
CloseEach(net, sockets, i) ==
  IF i > Len(sockets) THEN net
  ELSE CloseEach(SocketClose(net, sockets[i]), sockets, i + 1)

(***************************************************************************)
(* SocketSessionObj.  remote_channels_[node_id - 1] of the code is         *)
(* remote_channels_[node_id] here, sequences being indexed from 1.         *)
(***************************************************************************)
\* runtime.disco.create_socket_session_local_workers(num_workers)
CreateLocalWorkers(num_workers) == ThreadedSessionObj(num_workers, 1)

\* GetGlobalFunc(socket_session_init_workers) and CallPacked on a local session
CallInitWorkers(session, num_nodes, node_id, num_groups, num_workers_per_node) ==
  BroadcastPacked(session,
                  CmdInitWorkers(num_nodes, node_id, num_groups, num_workers_per_node))

\* the handshake packet for the connection accepted as number i + 1
Metadata(num_nodes, num_workers_per_node, num_groups, node_id) ==
  <<AnyInt(num_nodes), AnyInt(num_workers_per_node), AnyInt(num_groups),
    AnyInt(node_id)>>

\* SocketSessionObj(num_nodes, num_workers_per_node, num_groups, host, port)
SocketSessionObj(num_nodes, num_workers_per_node, num_groups) ==
  [num_nodes_ |-> num_nodes,
   num_workers_per_node_ |-> num_workers_per_node,
   socket_ |-> TCPSocket(0),
   remote_sockets_ |-> [i \in 1..(num_nodes - 1) |-> TCPSocket(i)],
   remote_channels_ |-> [i \in 1..(num_nodes - 1) |-> TCPSocket(i)],
   local_session_ |->
     CallInitWorkers(CreateLocalWorkers(num_workers_per_node), num_nodes, 0,
                     num_groups, num_workers_per_node)]

SocketSessionNet_LoopIndex(num_nodes, num_workers_per_node, num_groups) ==
  [down |-> [i \in 1..(num_nodes - 1) |->
               ReturnPackedSeq(Metadata(num_nodes, num_workers_per_node,
                                        num_groups, i - 1)).bytes],
   up |-> [i \in 1..(num_nodes - 1) |-> <<>>],
   open |-> 0..(num_nodes - 1),
   error |-> FALSE]

\* the connections after the constructor: every remote node has connected
\* and has been sent its metadata
SocketSessionNet(num_nodes, num_workers_per_node, num_groups) ==
  [down |-> [i \in 1..(num_nodes - 1) |->
               ReturnPackedSeq(Metadata(num_nodes, num_workers_per_node,
                                        num_groups, i)).bytes],
   up |-> [i \in 1..(num_nodes - 1) |-> <<>>],
   open |-> 0..(num_nodes - 1),
   error |-> FALSE]

NoSocketSession ==
  [num_nodes_ |-> 0, num_workers_per_node_ |-> 0, socket_ |-> ClosedSocket,
   remote_sockets_ |-> <<>>, remote_channels_ |-> <<>>,
   local_session_ |-> NoSession]
NoNet == [down |-> <<>>, up |-> <<>>, open |-> {}, error |-> FALSE]

\* SocketSessionObj::GetNumWorkers
SocketGetNumWorkers(session) == session.num_nodes_ * session.num_workers_per_node_

\* int node_id = worker_id / num_workers_per_node_: the quotient of two ints
\* is truncated toward zero
NodeIdOf(session, worker_id) ==
  IF worker_id >= 0 THEN worker_id \div session.num_workers_per_node_
  ELSE -((-worker_id) \div session.num_workers_per_node_)

BroadcastEnvelope_Worker0(packed_args) ==
  <<AnyInt(DiscoSocketAction.kSend), AnyInt(0)>> \o packed_args

\* the envelopes the controller puts on a remote channel
BroadcastEnvelope(packed_args) ==
  <<AnyInt(DiscoSocketAction.kSend), AnyInt(-1)>> \o packed_args
SendEnvelope(worker_id, packed_args) ==
  <<AnyInt(DiscoSocketAction.kSend), AnyInt(worker_id)>> \o packed_args
ReceiveEnvelope(worker_id) ==
  <<AnyInt(DiscoSocketAction.kReceive), AnyInt(worker_id)>>
ShutdownEnvelope == <<AnyInt(DiscoSocketAction.kShutdown), AnyInt(-1)>>

\* SocketSessionObj::BroadcastPacked
SocketBroadcastPacked(session, net, packed_args) ==
  [session |-> [session EXCEPT !.local_session_ = BroadcastPacked(@, packed_args)],
   net |-> SendEach(net, session.remote_channels_, 1,
                    BroadcastEnvelope(packed_args))]

\* SocketSessionObj::SendPacked
SocketSendPacked(session, net, worker_id, packed_args) ==
  IF NodeIdOf(session, worker_id) = 0
    THEN [session |-> [session EXCEPT !.local_session_ =
                         SendPacked(@, worker_id, packed_args)],
          net |-> net]
    ELSE [session |-> session,
          net |-> StreamSend(net,
                    session.remote_channels_[NodeIdOf(session, worker_id)],
                    SendEnvelope(worker_id, packed_args))]

\* SocketSessionObj::RecvReplyPacked, up to where it blocks
SocketRecvReplyRequest(session, net, worker_id) ==
  IF NodeIdOf(session, worker_id) = 0 THEN net
  ELSE StreamSend(net, session.remote_channels_[NodeIdOf(session, worker_id)],
                  ReceiveEnvelope(worker_id))

\* SocketSessionObj::RecvReplyPacked can return
SocketCanRecvReply(session, net, worker_id) ==
  IF NodeIdOf(session, worker_id) = 0
    THEN CanRecvReplyPacked(session.local_session_, worker_id)
    ELSE StreamCanRecv(net.up[NodeIdOf(session, worker_id)])

\* SocketSessionObj::RecvReplyPacked, the return from the local session
RecvReplyLocalOf(session, net, r) ==
  [args |-> r.args, session |-> [session EXCEPT !.local_session_ = r.session],
   net |-> net]
\* SocketSessionObj::RecvReplyPacked, the return from a remote channel
RecvReplyRemoteOf(session, net, node_id, r) ==
  [args |-> r.args, session |-> session,
   net |-> [net EXCEPT !.up[node_id] = r.rest]]
SocketRecvReplyPacked(session, net, worker_id) ==
  IF NodeIdOf(session, worker_id) = 0
    THEN RecvReplyLocalOf(session, net,
                          RecvReplyPacked(session.local_session_, worker_id))
    ELSE RecvReplyRemoteOf(session, net, NodeIdOf(session, worker_id),
                           StreamRecv(net.up[NodeIdOf(session, worker_id)]))

ShutdownFields_KeepChannels(session) ==
  [session EXCEPT !.remote_sockets_ = <<>>,
                  !.socket_ = IF IsClosed(@) THEN @ ELSE ClosedSocket]

\* SocketSessionObj::Shutdown, what it does to the session's fields
ShutdownFields(session) ==
  [session EXCEPT !.remote_sockets_ = <<>>,
                  !.remote_channels_ = <<>>,
                  !.socket_ = IF IsClosed(@) THEN @ ELSE ClosedSocket]

\* SocketSessionObj::Shutdown: if (!socket_.IsClosed()) socket_.Close()
CloseListening(net, socket) ==
  IF IsClosed(socket) THEN net ELSE SocketClose(net, socket)

SocketShutdown_SkipSend(session, net) ==
  [session |-> ShutdownFields(session),
   net |-> CloseListening(CloseEach(net, session.remote_sockets_, 1),
                          session.socket_)]

\* SocketSessionObj::Shutdown: a shutdown packet on every remote channel,
\* every remote socket closed, both vectors cleared, socket_ closed if open
SocketShutdown(session, net) ==
  [session |-> ShutdownFields(session),
   net |-> CloseListening(
             CloseEach(SendEach(net, session.remote_channels_, 1, ShutdownEnvelope),
                       session.remote_sockets_, 1),
             session.socket_)]

(***************************************************************************)
(* RemoteSocketSession, the relay of one remote node.                      *)
(***************************************************************************)
NoRemote ==
  [pc |-> "connect",      \* "connect", "loop", "reply", "done", "fatal",
                          \*   "joining", "destroyed"
   num_nodes_ |-> -1, node_id_ |-> -1, num_groups_ |-> -1,
   num_workers_per_node_ |-> -1, local_worker_id |-> -1,
   local_session_ |-> NoSession]

RemoteSocketSession_SizedByLocal(metadata, num_local_workers) ==
  IF Len(metadata) # 4 \/ num_local_workers < IntOf(metadata[2])
    THEN [NoRemote EXCEPT !.pc = "fatal"]
    ELSE [pc |-> "loop",
          num_nodes_ |-> IntOf(metadata[1]),
          num_workers_per_node_ |-> IntOf(metadata[2]),
          num_groups_ |-> IntOf(metadata[3]),
          node_id_ |-> IntOf(metadata[4]),
          local_worker_id |-> -1,
          local_session_ |->
            CallInitWorkers(CreateLocalWorkers(num_local_workers),
                            IntOf(metadata[1]), IntOf(metadata[4]),
                            IntOf(metadata[3]), IntOf(metadata[2]))]

\* RemoteSocketSession(server_host, server_port, num_local_workers) once the
\* metadata packet has arrived: the fields, CHECK_GE, InitLocalSession
RemoteSocketSession(metadata, num_local_workers) ==
  IF Len(metadata) # 4 \/ num_local_workers < IntOf(metadata[2])
    THEN [NoRemote EXCEPT !.pc = "fatal"]
    ELSE [pc |-> "loop",
          num_nodes_ |-> IntOf(metadata[1]),
          num_workers_per_node_ |-> IntOf(metadata[2]),
          num_groups_ |-> IntOf(metadata[3]),
          node_id_ |-> IntOf(metadata[4]),
          local_worker_id |-> -1,
          local_session_ |->
            CallInitWorkers(CreateLocalWorkers(IntOf(metadata[2])),
                            IntOf(metadata[1]), IntOf(metadata[4]),
                            IntOf(metadata[3]), IntOf(metadata[2]))]

LocalWorkerId_Mirror(worker_id, node_id, num_workers_per_node) ==
  num_workers_per_node - 1 - (worker_id - node_id * num_workers_per_node)

\* int local_worker_id = worker_id - node_id_ * num_workers_per_node_
LocalWorkerId(worker_id, node_id, num_workers_per_node) ==
  worker_id - node_id * num_workers_per_node

\* args = args.Slice(2)
EnvelopeBody(packed_args) == SubSeq(packed_args, 3, Len(packed_args))

\* MainLoop, case kSend
RelaySend(remote, worker_id, local_worker_id, packed_args) ==
  IF worker_id = -1
    THEN [remote EXCEPT !.local_session_ = BroadcastPacked(@, packed_args)]
    ELSE IF ValidWorker(remote.local_session_, local_worker_id)
           THEN [remote EXCEPT !.local_session_ =
                   SendPacked(@, local_worker_id, packed_args)]
           ELSE [remote EXCEPT !.pc = "fatal"]

RelayDispatch_UnknownIgnored(remote, packed_args) ==
  CASE IntOf(packed_args[1]) = DiscoSocketAction.kSend ->
         RelaySend(remote, IntOf(packed_args[2]),
                   LocalWorkerId(IntOf(packed_args[2]), remote.node_id_,
                                 remote.num_workers_per_node_),
                   EnvelopeBody(packed_args))
    [] IntOf(packed_args[1]) = DiscoSocketAction.kReceive ->
         IF ValidWorker(remote.local_session_,
                        LocalWorkerId(IntOf(packed_args[2]), remote.node_id_,
                                      remote.num_workers_per_node_))
           THEN [remote EXCEPT
                   !.pc = "reply",
                   !.local_worker_id =
                      LocalWorkerId(IntOf(packed_args[2]), remote.node_id_,
                                    remote.num_workers_per_node_)]
           ELSE [remote EXCEPT !.pc = "fatal"]
    [] IntOf(packed_args[1]) = DiscoSocketAction.kShutdown ->
         [remote EXCEPT !.pc = "done",
                        !.local_session_ = SessionShutdown(@)]
    [] OTHER -> remote

RelayDispatch_NoLocalShutdown(remote, packed_args) ==
  CASE IntOf(packed_args[1]) = DiscoSocketAction.kSend ->
         RelaySend(remote, IntOf(packed_args[2]),
                   LocalWorkerId(IntOf(packed_args[2]), remote.node_id_,
                                 remote.num_workers_per_node_),
                   EnvelopeBody(packed_args))
    [] IntOf(packed_args[1]) = DiscoSocketAction.kReceive ->
         IF ValidWorker(remote.local_session_,
                        LocalWorkerId(IntOf(packed_args[2]), remote.node_id_,
                                      remote.num_workers_per_node_))
           THEN [remote EXCEPT
                   !.pc = "reply",
                   !.local_worker_id =
                      LocalWorkerId(IntOf(packed_args[2]), remote.node_id_,
                                    remote.num_workers_per_node_)]
           ELSE [remote EXCEPT !.pc = "fatal"]
    [] IntOf(packed_args[1]) = DiscoSocketAction.kShutdown ->
         [remote EXCEPT !.pc = "done"]
    [] OTHER -> [remote EXCEPT !.pc = "fatal"]

\* MainLoop: one packet received and dispatched on its action; kReceive
\* then blocks in the local session's RecvReplyPacked
RelayDispatch(remote, packed_args) ==
  CASE IntOf(packed_args[1]) = DiscoSocketAction.kSend ->
         RelaySend(remote, IntOf(packed_args[2]),
                   LocalWorkerId(IntOf(packed_args[2]), remote.node_id_,
                                 remote.num_workers_per_node_),
                   EnvelopeBody(packed_args))
    [] IntOf(packed_args[1]) = DiscoSocketAction.kReceive ->
         IF ValidWorker(remote.local_session_,
                        LocalWorkerId(IntOf(packed_args[2]), remote.node_id_,
                                      remote.num_workers_per_node_))
           THEN [remote EXCEPT
                   !.pc = "reply",
                   !.local_worker_id =
                      LocalWorkerId(IntOf(packed_args[2]), remote.node_id_,
                                    remote.num_workers_per_node_)]
           ELSE [remote EXCEPT !.pc = "fatal"]
    [] IntOf(packed_args[1]) = DiscoSocketAction.kShutdown ->
         [remote EXCEPT !.pc = "done",
                        !.local_session_ = SessionShutdown(@)]
    [] OTHER -> [remote EXCEPT !.pc = "fatal"]

RelayReplyPacket_Tail(packed_args) == Tail(packed_args)

RelayReplyPacket_Tagged(packed_args) ==
  <<AnyInt(DiscoSocketAction.kReceive)>> \o packed_args

\* MainLoop, case kReceive: channel_->Reply(args) forwards the reply as it is
RelayReplyPacket(packed_args) == packed_args

\* MainLoop, case kReceive, once the local worker has replied
RelayReplyOf(remote, r) ==
  [packet |-> ReturnPackedSeq(RelayReplyPacket(r.args)).bytes,
   remote |-> [remote EXCEPT !.pc = "loop", !.local_worker_id = -1,
                             !.local_session_ = r.session]]
RelayReply(remote) ==
  RelayReplyOf(remote, RecvReplyPacked(remote.local_session_,
                                       remote.local_worker_id))

\* a worker thread's whole turn of MainLoop: Recv, then the command executed
WorkerTurnOf(wt, reply) == [wt |-> WorkerExecOf(wt, reply), cmd |-> wt.cmd,
                            reply |-> reply]
WorkerTurnAfterRecv(wt) == WorkerTurnOf(wt, WorkerReply(wt.worker, wt.cmd))
WorkerTurn(wt) == WorkerTurnAfterRecv(WorkerRecv(wt))

(***************************************************************************)
(* The argument values the specifications draw their inputs from.          *)
(***************************************************************************)
Float32 == [code |-> 2, bits |-> 32, lanes |-> 1]
Int8x300 == [code |-> 0, bits |-> 8, lanes |-> 300]
Cpu0 == [device_type |-> 1, device_id |-> 0]
CudaM1 == [device_type |-> 2, device_id |-> -1]

Tensor(data, ndim, shape, strides) ==
  [data |-> data, device |-> CudaM1, ndim |-> ndim, dtype |-> Int8x300,
   shape |-> shape, strides |-> strides, byte_offset |-> 260]

\* the kinds SendPackedSeq (client_mode = false) and RecvPackedSeq both handle
RepresentableVals ==
  { AnyNone, AnyBool(1), AnyInt(-2), AnyInt(258), AnyFloat(-513),
    [type_index |-> TypeIndex.kTVMFFIOpaquePtr, v_ptr |-> 4660],
    [type_index |-> TypeIndex.kTVMFFIDataType, v_dtype |-> Float32],
    [type_index |-> TypeIndex.kTVMFFIDataType, v_dtype |-> Int8x300],
    [type_index |-> TypeIndex.kTVMFFIDevice, v_device |-> Cpu0],
    [type_index |-> TypeIndex.kTVMFFIDevice, v_device |-> CudaM1],
    [type_index |-> TypeIndex.kTVMFFIDLTensorPtr,
     tensor |-> Tensor(0, 0, <<>>, NoStrides)],
    [type_index |-> TypeIndex.kTVMFFIDLTensorPtr,
     tensor |-> Tensor(4096, 2, <<3, -1>>, NoStrides)],
    AnyRawStr(<<>>), AnyRawStr(<<104, 105>>),
    AnyBytes(<<>>), AnyBytes(<<0, 255>>) }

\* the kinds one of the two directions rejects or hands to the object codec
OtherVals ==
  { [type_index |-> TypeIndex.kTVMFFIDLTensorPtr,
     tensor |-> Tensor(4096, 1, <<3>>, <<1>>)],
    [type_index |-> TypeIndex.kTVMFFINDArray, obj |-> <<7>>],
    [type_index |-> TypeIndex.kTVMFFIFunction, v_obj |-> 77],
    [type_index |-> TypeIndex.kTVMFFIModule, v_obj |-> 78],
    [type_index |-> TypeIndex.kTVMFFIStaticObjectBegin + 1, obj |-> <<120>>],
    [type_index |-> TypeIndex.kTVMFFIObjectRValueRef, obj |-> <<121>>],
    [type_index |-> TypeIndex.kTVMFFIStaticObjectBegin - 1, obj |-> <<122>>] }

ArgVals == RepresentableVals \cup OtherVals

SeqsUpTo(S, n) == UNION { [1..k -> S] : k \in 0..n }

Representable(packed_args) ==
  \A i \in 1..Len(packed_args) : packed_args[i] \in RepresentableVals

(***************************************************************************)
(* State.                                                                  *)
(***************************************************************************)
VARIABLES
  \* SpecCodec: one SendPackedSeq / RecvPackedSeq over a byte stream
  c_pc,        \* "start", "sent", "send_error", "received"
  c_args,      \* the packed sequence handed to SendPackedSeq
  c_wire,      \* the bytes SendPackedSeq wrote
  c_out,       \* the sequence RecvPackedSeq returned
  c_off,       \* the stream position after RecvPackedSeq
  c_status     \* the status given to ThrowError, "kSuccess" when none

codecVars == <<c_pc, c_args, c_wire, c_out, c_off, c_status>>

VARIABLES
  \* SpecQueue: one DiscoThreadedMessageQueue, its producer and its consumer
  mq,          \* the queue's fields
  mutex_,      \* holder of mutex_: "free", "producer", "consumer"
  cv_notified, \* condition_ was notified while the consumer was blocked on it
  prod_pc,     \* producer in Send: "idle", "commit", "locked", "notify"
  cons_pc,     \* consumer in Recv: "idle", "check", "blocked", "take",
               \*   "recycle", "decode"
  need_notify, \* the local of CommitSendAndNotifyEnqueue
  sent,        \* history: the argument sequences of the Send calls, in order
  recvd        \* history: the sequences the Recv calls returned, in order

queueVars ==
  <<mq, mutex_, cv_notified, prod_pc, cons_pc, need_notify, sent, recvd>>

VARIABLES
  \* SpecThreaded: one threaded session, its controller and its workers
  ts_state,       \* "new", "fatal" (the constructor's CHECK failed), "live",
                  \*   "check_failed" (SyncWorker's ICHECK failed),
                  \*   "joining", "destroyed"
  ts_num_workers, \* the arguments of Session::ThreadedSession
  ts_num_groups,
  ts,             \* the ThreadedSessionObj
  ctl,            \* the call the controller thread is in, op = "idle" if none
  ctl_ops,        \* number of calls the controller has made
  ctl_prev,       \* the call completed before ctl_last
  ctl_last,       \* the call completed last, with what it returned
  h_sent,         \* history, per worker: commands the session was to deliver
  h_seen,         \* history, per worker: commands its MainLoop received
  h_replied,      \* history, per worker: packets it put on its reply side
  h_got           \* history, per worker: packets RecvReplyPacked returned

threadedVars ==
  <<ts_state, ts_num_workers, ts_num_groups, ts, ctl, ctl_ops, ctl_prev,
    ctl_last, h_sent, h_seen, h_replied, h_got>>

VARIABLES
  \* SpecSocket: one socket session, its controller, the relay of every
  \* remote node and the workers of every node
  ss_state,       \* "new", "live", "destroying", "destroyed"
  ss_num_nodes,   \* the arguments of SocketSession
  ss_num_workers_per_node,
  ss_num_groups,
  ss,             \* the SocketSessionObj
  net,            \* the connections and the controller's descriptors
  rn,             \* per remote node: its RemoteSocketSession
  sctl,           \* the call the controller thread is in, op = "idle" if none
  s_ops,          \* number of calls the controller has made
  s_budget,       \* number of calls the controller makes in this run
  s_shutdowns,    \* number of Shutdown() calls made, the destructor's included
  s_calls,        \* history: the calls the controller made, in order
  s_rets,         \* history: what its RecvReplyPacked calls returned
  w_seen,         \* history, per node and worker: commands MainLoop received
  w_replied,      \* history, per node and worker: packets it replied
  r_seen          \* history, per remote node: envelopes its relay received

socketVars ==
  <<ss_state, ss_num_nodes, ss_num_workers_per_node, ss_num_groups, ss, net,
    rn, sctl, s_ops, s_budget, s_shutdowns, s_calls, s_rets, w_seen,
    w_replied, r_seen>>

VARIABLES
  \* SpecGroups: workers calling the cross-group point-to-point builtins
  g_state,        \* "off", "on"
  g_num_workers,  \* DiscoWorker::num_workers
  g_num_groups,   \* DiscoWorker::num_groups
  g_calls,        \* the calls made so far, with what each of them did
  g_inflight      \* the buffers sent and not yet received, oldest first

groupVars == <<g_state, g_num_workers, g_num_groups, g_calls, g_inflight>>

vars == <<codecVars, queueVars, threadedVars, socketVars, groupVars>>

\* what the actions of one specification leave alone
notCodec == <<queueVars, threadedVars, socketVars, groupVars>>
notQueue == <<codecVars, threadedVars, socketVars, groupVars>>
notThreaded == <<codecVars, queueVars, socketVars, groupVars>>
notSocket == <<codecVars, queueVars, threadedVars, groupVars>>
notGroups == <<codecVars, queueVars, threadedVars, socketVars>>

\* the variables of a specification that is not running
CodecOff ==
  /\ c_pc = "off" /\ c_args = <<>> /\ c_wire = <<>> /\ c_out = <<>>
  /\ c_off = 0 /\ c_status = "kSuccess"

QueueOff ==
  /\ mq = NewQueue /\ mutex_ = "free" /\ cv_notified = FALSE
  /\ prod_pc = "off" /\ cons_pc = "off" /\ need_notify = FALSE
  /\ sent = <<>> /\ recvd = <<>>

Idle == [op |-> "idle"]
NoCall == [op |-> "none", worker_id |-> -1, reg_id |-> -1, value |-> AnyNone,
           args |-> <<>>]

ThreadedOff ==
  /\ ts_state = "off" /\ ts_num_workers = 0 /\ ts_num_groups = 1
  /\ ts = NoSession /\ ctl = Idle /\ ctl_ops = 0
  /\ ctl_prev = NoCall /\ ctl_last = NoCall
  /\ h_sent = <<>> /\ h_seen = <<>> /\ h_replied = <<>> /\ h_got = <<>>

SocketOff ==
  /\ ss_state = "off" /\ ss_num_nodes = 0 /\ ss_num_workers_per_node = 0
  /\ ss_num_groups = 1 /\ ss = NoSocketSession /\ net = NoNet /\ rn = <<>>
  /\ sctl = Idle /\ s_ops = 0 /\ s_budget = 0 /\ s_shutdowns = 0
  /\ s_calls = <<>> /\ s_rets = <<>>
  /\ w_seen = <<>> /\ w_replied = <<>> /\ r_seen = <<>>

GroupsOff ==
  /\ g_state = "off" /\ g_num_workers = 0 /\ g_num_groups = 1
  /\ g_calls = <<>> /\ g_inflight = <<>>

(***************************************************************************)
(* SpecCodec.                                                              *)
(***************************************************************************)
CodecInit ==
  /\ c_pc = "start"
  /\ c_args \in SeqsUpTo(ArgVals, MaxArgs)
  /\ c_wire = <<>>
  /\ c_out = <<>>
  /\ c_off = 0
  /\ c_status = "kSuccess"
  /\ QueueOff /\ ThreadedOff /\ SocketOff /\ GroupsOff

\* SendPackedSeq(packed_args, num_args, client_mode = false, channel)
CodecSend ==
  /\ c_pc = "start"
  /\ \E r \in {SendPackedSeq(c_args, FALSE)} :
         /\ c_wire' = r.bytes
         /\ c_status' = r.status
         /\ c_pc' = IF r.status = "kSuccess" THEN "sent" ELSE "send_error"
  /\ UNCHANGED <<c_args, c_out, c_off, notCodec>>

\* RecvPackedSeq(&out_packed_args, &out_num_args, channel)
CodecRecv ==
  /\ c_pc = "sent"
  /\ \E r \in {RecvPackedSeq(c_wire, 0)} :
         /\ c_out' = r.args
         /\ c_off' = r.off
         /\ c_status' = r.status
  /\ c_pc' = "received"
  /\ UNCHANGED <<c_args, c_wire, notCodec>>

CodecNext == CodecSend \/ CodecRecv

SpecCodec == CodecInit /\ [][CodecNext]_vars

(***************************************************************************)
(* SpecReturn: one reply packet written by ReturnPackedSeq,                *)
(* ReturnException or ReturnVoid and read back as a receiver reads it:     *)
(* the 64-bit length, the command code, then RecvPackedSeq.  c_args is the *)
(* sequence the caller has to return; a caller returns an exception for a  *)
(* single raw string (its message) and a void for a single none.           *)
(***************************************************************************)
HeaderBytes == SizeofInt64 + SizeofRPCCode

ReturnInit ==
  /\ c_pc = "start"
  /\ c_args \in SeqsUpTo(ArgVals, MaxArgs)
  /\ c_wire = <<>>
  /\ c_out = <<>>
  /\ c_off = 0
  /\ c_status = "kSuccess"
  /\ QueueOff /\ ThreadedOff /\ SocketOff /\ GroupsOff

\* ReturnPackedSeq(packed_args, num_args, channel)
Return_PackedSeq ==
  /\ c_pc = "start"
  /\ \E r \in {ReturnPackedSeq(c_args)} :
         /\ c_wire' = r.bytes
         /\ c_status' = r.status
         /\ c_pc' = IF r.status = "kSuccess" THEN "returned" ELSE "send_error"
  /\ UNCHANGED <<c_args, c_out, c_off, notCodec>>

\* ReturnException(msg, channel), msg the caller's error message
Return_Exception ==
  /\ c_pc = "start"
  /\ Len(c_args) = 1
  /\ c_args[1].type_index = TypeIndex.kTVMFFIRawStr
  /\ c_wire' = ReturnException(c_args[1].v_c_str)
  /\ c_pc' = "exception"
  /\ UNCHANGED <<c_args, c_out, c_off, c_status, notCodec>>

\* ReturnVoid(channel)
Return_Void ==
  /\ c_pc = "start"
  /\ c_args = <<AnyNone>>
  /\ c_wire' = ReturnVoid
  /\ c_pc' = "void"
  /\ UNCHANGED <<c_args, c_out, c_off, c_status, notCodec>>

\* the receiver: Read(&packet_nbytes), Read(&code), RecvPackedSeq
Return_Recv ==
  /\ c_pc \in {"returned", "exception", "void"}
  /\ \E r \in {RecvPackedSeq(c_wire, HeaderBytes)} :
         /\ c_out' = r.args
         /\ c_off' = r.off
         /\ c_status' = r.status
  /\ c_pc' = CASE c_pc = "returned" -> "returned_read"
               [] c_pc = "exception" -> "exception_read"
               [] OTHER -> "void_read"
  /\ UNCHANGED <<c_args, c_wire, notCodec>>

ReturnNext == Return_PackedSeq \/ Return_Exception \/ Return_Void \/ Return_Recv

SpecReturn == ReturnInit /\ [][ReturnNext]_vars

\* C2: for every packed sequence of representable argument kinds,
\* SendPackedSeq succeeds and RecvPackedSeq of the bytes it wrote returns a
\* sequence of the same length whose i-th element has the tag and the payload
\* of the i-th encoded element, having read exactly the bytes written.
C2_RoundTrip ==
  Representable(c_args) =>
    /\ c_pc # "send_error"
    /\ c_pc = "received" =>
         /\ c_status = "kSuccess"
         /\ Len(c_out) = Len(c_args)
         /\ \A i \in 1..Len(c_args) :
              /\ c_out[i].type_index = c_args[i].type_index
              /\ c_out[i] = c_args[i]
         /\ c_off = Len(c_wire)

C2_Witness ==
  /\ c_pc = "received"
  /\ Len(c_args) = 2
  /\ c_args[1].type_index = TypeIndex.kTVMFFIDLTensorPtr
  /\ c_args[1].tensor.ndim = 2
  /\ c_args[2] = AnyInt(-2)
  /\ c_out = c_args

(***************************************************************************)
(* SpecQueue: the producer thread in Send and the consumer thread in Recv  *)
(* of one DiscoThreadedMessageQueue, interleaved at every lock boundary.   *)
(***************************************************************************)
QueueMsgs ==
  { <<>>, <<AnyInt(258)>>, <<AnyRawStr(<<104, 105>>), AnyNone>> }

QueueInit ==
  /\ mq = NewQueue
  /\ mutex_ = "free"
  /\ cv_notified = FALSE
  /\ prod_pc = "idle"
  /\ cons_pc = "idle"
  /\ need_notify = FALSE
  /\ sent = <<>>
  /\ recvd = <<>>
  /\ CodecOff /\ ThreadedOff /\ SocketOff /\ GroupsOff

\* Send: ReturnPackedSeq(args, this) fills write_buffer_, no lock held
Send_Encode(packed_args) ==
  /\ prod_pc = "idle"
  /\ Len(sent) < MaxSends
  /\ mq' = QueueWrite(mq, ReturnPackedSeq(packed_args).bytes)
  /\ sent' = Append(sent, packed_args)
  /\ prod_pc' = "commit"
  /\ UNCHANGED <<mutex_, cv_notified, cons_pc, need_notify, recvd, notQueue>>

Commit_Lock_WaitDrained ==
  /\ prod_pc = "commit"
  /\ mutex_ = "free"
  /\ mq.msg_cnt = 0
  /\ mutex_' = "producer"
  /\ prod_pc' = "locked"
  /\ UNCHANGED <<mq, cv_notified, cons_pc, need_notify, sent, recvd, notQueue>>

\* CommitSendAndNotifyEnqueue: lock_guard lock{mutex_}
Commit_Lock ==
  /\ prod_pc = "commit"
  /\ mutex_ = "free"
  /\ mutex_' = "producer"
  /\ prod_pc' = "locked"
  /\ UNCHANGED <<mq, cv_notified, cons_pc, need_notify, sent, recvd, notQueue>>

Commit_Locked_NoNotify ==
  /\ prod_pc = "locked"
  /\ mq' = CommitLocked(mq)
  /\ need_notify' = FALSE
  /\ mutex_' = "free"
  /\ prod_pc' = "notify"
  /\ UNCHANGED <<cv_notified, cons_pc, sent, recvd, notQueue>>

\* CommitSendAndNotifyEnqueue: ++msg_cnt_, ring_buffer_.Write, need_notify,
\* end of the lock scope
Commit_Locked ==
  /\ prod_pc = "locked"
  /\ mq' = CommitLocked(mq)
  /\ need_notify' = mq.dequeue_waiting
  /\ mutex_' = "free"
  /\ prod_pc' = "notify"
  /\ UNCHANGED <<cv_notified, cons_pc, sent, recvd, notQueue>>

\* CommitSendAndNotifyEnqueue: notify_one if need_notify, write_buffer_.clear()
Commit_Notify ==
  /\ prod_pc = "notify"
  /\ cv_notified' = (cv_notified \/ (need_notify /\ cons_pc = "blocked"))
  /\ mq' = CommitClear(mq)
  /\ prod_pc' = "idle"
  /\ UNCHANGED <<mutex_, cons_pc, need_notify, sent, recvd, notQueue>>

\* DequeueNextPacket: unique_lock lock(mutex_); dequeue_waiting_ = true
Dequeue_Lock ==
  /\ cons_pc = "idle"
  /\ mutex_ = "free"
  /\ mutex_' = "consumer"
  /\ mq' = [mq EXCEPT !.dequeue_waiting = TRUE]
  /\ cons_pc' = "check"
  /\ UNCHANGED <<cv_notified, prod_pc, need_notify, sent, recvd, notQueue>>

\* condition_.wait(lock, pred): the predicate is tested with the lock held;
\* when it fails the lock is released and the thread blocks, atomically
Dequeue_Check ==
  /\ cons_pc = "check"
  /\ IF mq.msg_cnt > 0
       THEN /\ cons_pc' = "take"
            /\ UNCHANGED <<mutex_, cv_notified>>
       ELSE /\ cons_pc' = "blocked"
            /\ mutex_' = "free"
            /\ cv_notified' = FALSE
  /\ UNCHANGED <<mq, prod_pc, need_notify, sent, recvd, notQueue>>

\* condition_.wait: woken by notify_one, the lock is taken again
Dequeue_Wake ==
  /\ cons_pc = "blocked"
  /\ cv_notified
  /\ mutex_ = "free"
  /\ mutex_' = "consumer"
  /\ cv_notified' = FALSE
  /\ cons_pc' = "check"
  /\ UNCHANGED <<mq, prod_pc, need_notify, sent, recvd, notQueue>>

\* condition_.wait: a spurious wake-up, which std::condition_variable allows
Dequeue_SpuriousWake ==
  /\ cons_pc = "blocked"
  /\ ~cv_notified
  /\ mutex_ = "free"
  /\ mutex_' = "consumer"
  /\ cons_pc' = "check"
  /\ UNCHANGED <<mq, cv_notified, prod_pc, need_notify, sent, recvd, notQueue>>

Dequeue_Take_KeepLock ==
  /\ cons_pc = "take"
  /\ mq' = DequeueLocked(mq)
  /\ cons_pc' = "recycle"
  /\ UNCHANGED <<mutex_, cv_notified, prod_pc, need_notify, sent, recvd,
                 notQueue>>

\* DequeueNextPacket: the rest of the lock scope
Dequeue_Take ==
  /\ cons_pc = "take"
  /\ mq' = DequeueLocked(mq)
  /\ mutex_' = "free"
  /\ cons_pc' = "recycle"
  /\ UNCHANGED <<cv_notified, prod_pc, need_notify, sent, recvd, notQueue>>

\* DequeueNextPacket: RecycleAll(); Read(&code)
Dequeue_ReadCode ==
  /\ cons_pc = "recycle"
  /\ mq' = DequeueReadCode(mq)
  /\ cons_pc' = "decode"
  /\ UNCHANGED <<mutex_, cv_notified, prod_pc, need_notify, sent, recvd, notQueue>>

\* Recv: RecvPackedSeq, return PackedArgs(packed_args, num_args)
Recv_Decode ==
  /\ cons_pc = "decode"
  /\ \E r \in {RecvDecode(mq)} :
         /\ mq' = r.q
         /\ recvd' = Append(recvd, r.args)
  /\ cons_pc' = "idle"
  /\ UNCHANGED <<mutex_, cv_notified, prod_pc, need_notify, sent, notQueue>>

QueueNext ==
  \/ \E packed_args \in QueueMsgs : Send_Encode(packed_args)
  \/ Commit_Lock
  \/ Commit_Locked
  \/ Commit_Notify
  \/ Dequeue_Lock
  \/ Dequeue_Check
  \/ Dequeue_Wake
  \/ Dequeue_SpuriousWake
  \/ Dequeue_Take
  \/ Dequeue_ReadCode
  \/ Recv_Decode

SpecQueue == QueueInit /\ [][QueueNext]_vars

\* The two threads under the scheduler: a thread that is inside a lock scope
\* or past it keeps running, and a thread waiting for mutex_ gets it when it
\* is released again and again.  Nothing makes the consumer call Recv, and
\* nothing makes a blocked consumer wake up.
SpecQueueLive ==
  /\ SpecQueue
  /\ SF_vars(Commit_Lock)
  /\ WF_vars(Commit_Locked)
  /\ WF_vars(Commit_Notify)
  /\ WF_vars(Dequeue_Check)
  /\ WF_vars(Dequeue_Take)

\* the producer between taking mutex_ and the end of Send
ProducerRunning == Commit_Locked \/ Commit_Notify

\* the consumer inside DequeueNextPacket, neither waiting for mutex_ nor
\* blocked
ConsumerRunning == Dequeue_Check \/ Dequeue_Take \/ Dequeue_ReadCode

\* The two threads under the scheduler, for a consumer that has called Recv:
\* a thread that is running keeps running, and a notified waiter gets mutex_
\* back, and RecvPackedSeq on the private copy comes to its end (Recv_Decode
\* is enabled in every state with cons_pc = "decode" and is the only step
\* out of it).  Nothing makes a waiter wake up that was not notified, and
\* nothing makes the producer call Send.
SpecQueueWake ==
  /\ SpecQueue
  /\ WF_vars(ProducerRunning)
  /\ WF_vars(ConsumerRunning)
  /\ SF_vars(Dequeue_Wake)
  /\ []<>(cons_pc # "decode")

\* the packets framed in a ring buffer, decoded, oldest first
RECURSIVE RingPackets(_)
RingPackets(ring) ==
  IF ring = <<>> THEN <<>>
  ELSE LET packet_nbytes == FromBytesU(SubSeq(ring, 1, SizeofInt64))
           packet == SubSeq(ring, SizeofInt64 + 1, SizeofInt64 + packet_nbytes)
       IN  <<RecvPackedSeq(packet, SizeofRPCCode).args>>
           \o RingPackets(SubSeq(ring, SizeofInt64 + packet_nbytes + 1, Len(ring)))

\* the packet the consumer has dequeued and not yet returned
InFlightRecv ==
  IF cons_pc \in {"recycle", "decode"}
    THEN <<RecvPackedSeq(mq.read_buffer, SizeofRPCCode).args>> ELSE <<>>

\* the packet the producer has encoded and not yet committed
InFlightSend ==
  IF prod_pc \in {"commit", "locked"} THEN <<sent[Len(sent)]>> ELSE <<>>

\* C1: in every interleaving of the producer's Send calls with the consumer's
\* Recv calls, what Recv has returned, then the packet being decoded, then the
\* packets pending in the ring buffer, then the packet being committed, is
\* exactly the sequence of sends in send order: nothing is lost, duplicated or
\* reordered.
C1_Fifo ==
  recvd \o InFlightRecv \o RingPackets(mq.ring_buffer) \o InFlightSend = sent

C1_Witness ==
  /\ Len(recvd) >= 2
  /\ recvd[1] # recvd[2]
  /\ mq.msg_cnt >= 1
  /\ cons_pc = "idle"

(***************************************************************************)
(* SpecThreaded: Session::ThreadedSession(num_workers, num_groups), then   *)
(* the controller thread calling the session's methods one after another   *)
(* while every worker thread runs its MainLoop.                            *)
(***************************************************************************)
RegIds == {0}
ValueX == AnyInt(9)
BroadcastCmds == { CmdStore(0, 7), CmdEcho(5) }
\* the raising command goes to worker 0
SendCmds(worker_id) ==
  { CmdEcho(60 + worker_id) } \cup (IF worker_id = 0 THEN { CmdRaise } ELSE {})

WorkerIds(session) == { k - 1 : k \in DOMAIN session.workers_ }

Completed(op, worker_id, reg_id, value, packed_args) ==
  [op |-> op, worker_id |-> worker_id, reg_id |-> reg_id, value |-> value,
   args |-> packed_args]

\* a history with cmd appended for every worker / for one worker
LogAll(h, cmd) == [k \in DOMAIN h |-> Append(h[k], cmd)]
LogOne(h, worker_id, cmd) == [h EXCEPT ![worker_id + 1] = Append(@, cmd)]

ThreadedInit ==
  /\ ts_state = "new"
  /\ ts_num_workers \in 0..MaxWorkers
  /\ ts_num_groups \in 1..MaxGroups
  /\ ts = NoSession
  /\ ctl = Idle
  /\ ctl_ops = 0
  /\ ctl_prev = NoCall
  /\ ctl_last = NoCall
  /\ h_sent = <<>> /\ h_seen = <<>> /\ h_replied = <<>> /\ h_got = <<>>
  /\ CodecOff /\ QueueOff /\ SocketOff /\ GroupsOff

\* Session::ThreadedSession(num_workers, num_group)
T_ThreadedSession ==
  /\ ts_state = "new"
  /\ IF ThreadedSessionCheck(ts_num_workers, ts_num_groups)
       THEN /\ ts' = ThreadedSessionObj(ts_num_workers, ts_num_groups)
            /\ ts_state' = "live"
            /\ h_sent' = [k \in 1..ts_num_workers |-> <<>>]
            /\ h_seen' = [k \in 1..ts_num_workers |-> <<>>]
            /\ h_replied' = [k \in 1..ts_num_workers |-> <<>>]
            /\ h_got' = [k \in 1..ts_num_workers |-> <<>>]
       ELSE /\ ts_state' = "fatal"
            /\ UNCHANGED <<ts, h_sent, h_seen, h_replied, h_got>>
  /\ UNCHANGED <<ts_num_workers, ts_num_groups, ctl, ctl_ops, ctl_prev,
                 ctl_last, notThreaded>>

ControllerFree == ts_state = "live" /\ ctl = Idle /\ ctl_ops < MaxOps

\* ThreadedSessionObj::BroadcastPacked(args)
T_BroadcastPacked(packed_args) ==
  /\ ControllerFree
  /\ ts' = BroadcastPacked(ts, packed_args)
  /\ h_sent' = LogAll(h_sent, packed_args)
  /\ ctl_ops' = ctl_ops + 1
  /\ ctl_prev' = ctl_last
  /\ ctl_last' = Completed("BroadcastPacked", -1, -1, AnyNone, packed_args)
  /\ UNCHANGED <<ts_state, ts_num_workers, ts_num_groups, ctl, h_seen,
                 h_replied, h_got, notThreaded>>

\* ThreadedSessionObj::SendPacked(worker_id, args)
T_SendPacked(worker_id, packed_args) ==
  /\ ControllerFree
  /\ ValidWorker(ts, worker_id)
  /\ ts' = SendPacked(ts, worker_id, packed_args)
  /\ h_sent' = LogOne(h_sent, worker_id, packed_args)
  /\ ctl_ops' = ctl_ops + 1
  /\ ctl_prev' = ctl_last
  /\ ctl_last' = Completed("SendPacked", worker_id, -1, AnyNone, packed_args)
  /\ UNCHANGED <<ts_state, ts_num_workers, ts_num_groups, ctl, h_seen,
                 h_replied, h_got, notThreaded>>

\* ThreadedSessionObj::RecvReplyPacked(worker_id): the call, which blocks in
\* RecvReply until the worker's reply queue holds a packet
T_RecvReplyPacked_Call(worker_id) ==
  /\ ControllerFree
  /\ ValidWorker(ts, worker_id)
  /\ ctl' = [op |-> "RecvReplyPacked", worker_id |-> worker_id]
  /\ ctl_ops' = ctl_ops + 1
  /\ UNCHANGED <<ts_state, ts_num_workers, ts_num_groups, ts, ctl_prev,
                 ctl_last, h_sent, h_seen, h_replied, h_got, notThreaded>>

T_RecvReplyPacked_Return ==
  /\ ts_state = "live"
  /\ ctl.op = "RecvReplyPacked"
  /\ CanRecvReplyPacked(ts, ctl.worker_id)
  /\ \E r \in {RecvReplyPacked(ts, ctl.worker_id)} :
         /\ ts' = r.session
         /\ h_got' = LogOne(h_got, ctl.worker_id, r.args)
         /\ ctl_last' = Completed("RecvReplyPacked", ctl.worker_id, -1,
                                  AnyNone, r.args)
  /\ ctl_prev' = ctl_last
  /\ ctl' = Idle
  /\ UNCHANGED <<ts_state, ts_num_workers, ts_num_groups, ctl_ops, h_sent,
                 h_seen, h_replied, notThreaded>>

\* DebugGetFromRemote(reg_id, worker_id) and DebugSetRegister(reg_id, value,
\* worker_id): the call, up to where SyncWorker(worker_id) blocks for the reply
T_Debug_Call(op, reg_id, value, worker_id) ==
  /\ ControllerFree
  /\ ValidWorker(ts, worker_id)
  /\ ts' = SyncWorkerSend(ts, worker_id)
  /\ h_sent' = LogAll(h_sent, CmdSyncWorker(worker_id))
  /\ ctl' = [op |-> op, worker_id |-> worker_id, reg_id |-> reg_id,
             value |-> value]
  /\ ctl_ops' = ctl_ops + 1
  /\ UNCHANGED <<ts_state, ts_num_workers, ts_num_groups, ctl_prev, ctl_last,
                 h_seen, h_replied, h_got, notThreaded>>

\* DebugGetFromRemote: SyncWorker returns, then the register is read
T_DebugGetFromRemote_Return ==
  /\ ts_state = "live"
  /\ ctl.op = "DebugGetFromRemote"
  /\ CanRecvReplyPacked(ts, ctl.worker_id)
  /\ \E r \in {RecvReplyPacked(ts, ctl.worker_id)} :
         /\ ts' = r.session
         /\ h_got' = LogOne(h_got, ctl.worker_id, r.args)
         /\ IF SyncWorkerReplyOk(r.args, ctl.worker_id)
              THEN /\ ctl_last' = Completed("DebugGetFromRemote", ctl.worker_id,
                                    ctl.reg_id,
                                    DebugGetRead(r.session, ctl.reg_id, ctl.worker_id),
                                    <<>>)
                   /\ ctl_prev' = ctl_last
                   /\ UNCHANGED ts_state
              ELSE /\ ts_state' = "check_failed"
                   /\ UNCHANGED <<ctl_prev, ctl_last>>
  /\ ctl' = Idle
  /\ UNCHANGED <<ts_num_workers, ts_num_groups, ctl_ops, h_sent, h_seen,
                 h_replied, notThreaded>>

\* DebugSetRegister: SyncWorker returns, then the controller thread writes
\* the register
T_DebugSetRegister_Return ==
  /\ ts_state = "live"
  /\ ctl.op = "DebugSetRegister"
  /\ CanRecvReplyPacked(ts, ctl.worker_id)
  /\ \E r \in {RecvReplyPacked(ts, ctl.worker_id)} :
         /\ h_got' = LogOne(h_got, ctl.worker_id, r.args)
         /\ IF SyncWorkerReplyOk(r.args, ctl.worker_id)
              THEN /\ ts' = DebugSetWrite(r.session, ctl.reg_id, ctl.value,
                                          ctl.worker_id)
                   /\ ctl_last' = Completed("DebugSetRegister", ctl.worker_id,
                                    ctl.reg_id, ctl.value, <<>>)
                   /\ ctl_prev' = ctl_last
                   /\ UNCHANGED ts_state
              ELSE /\ ts' = r.session
                   /\ ts_state' = "check_failed"
                   /\ UNCHANGED <<ctl_prev, ctl_last>>
  /\ ctl' = Idle
  /\ UNCHANGED <<ts_num_workers, ts_num_groups, ctl_ops, h_sent, h_seen,
                 h_replied, notThreaded>>

\* ~ThreadedSessionObj: this->Shutdown()
T_Destroy_Shutdown ==
  /\ ts_state = "live"
  /\ ctl = Idle
  /\ ts' = SessionShutdown(ts)
  /\ h_sent' = LogAll(h_sent, CmdShutDown)
  /\ ts_state' = "joining"
  /\ UNCHANGED <<ts_num_workers, ts_num_groups, ctl, ctl_ops, ctl_prev,
                 ctl_last, h_seen, h_replied, h_got, notThreaded>>

\* ~ThreadedSessionObj: workers_.clear(), which joins every worker thread
T_Destroy_Clear ==
  /\ ts_state = "joining"
  /\ \A k \in DOMAIN ts.workers_ : ts.workers_[k].thread = "done"
  /\ ts' = NoSession
  /\ ts_state' = "destroyed"
  /\ UNCHANGED <<ts_num_workers, ts_num_groups, ctl, ctl_ops, ctl_prev,
                 ctl_last, h_sent, h_seen, h_replied, h_got, notThreaded>>

\* worker thread k - 1, MainLoop: channel->Recv()
T_WorkerRecv(k) ==
  /\ ts_state \in {"live", "joining"}
  /\ WorkerCanRecv(ts.workers_[k])
  /\ ts' = [ts EXCEPT !.workers_[k] = WorkerRecv(@)]
  /\ h_seen' = [h_seen EXCEPT ![k] = Append(@, ts'.workers_[k].cmd)]
  /\ UNCHANGED <<ts_state, ts_num_workers, ts_num_groups, ctl, ctl_ops,
                 ctl_prev, ctl_last, h_sent, h_replied, h_got, notThreaded>>

\* worker thread k - 1, MainLoop: the command is executed
T_WorkerExec(k) ==
  /\ ts_state \in {"live", "joining"}
  /\ ts.workers_[k].thread = "exec"
  /\ ts' = [ts EXCEPT !.workers_[k] = WorkerExec(@)]
  /\ \E reply \in {WorkerReply(ts.workers_[k].worker, ts.workers_[k].cmd)} :
         h_replied' = IF reply = NoReply THEN h_replied
                      ELSE [h_replied EXCEPT ![k] = Append(@, reply)]
  /\ UNCHANGED <<ts_state, ts_num_workers, ts_num_groups, ctl, ctl_ops,
                 ctl_prev, ctl_last, h_sent, h_seen, h_got, notThreaded>>

ThreadedNext ==
  \/ T_ThreadedSession
  \/ \E packed_args \in BroadcastCmds : T_BroadcastPacked(packed_args)
  \/ \E w \in WorkerIds(ts) : \E packed_args \in SendCmds(w) :
       T_SendPacked(w, packed_args)
  \/ \E w \in WorkerIds(ts) : T_RecvReplyPacked_Call(w)
  \/ T_RecvReplyPacked_Return
  \/ \E w \in WorkerIds(ts) : \E reg_id \in RegIds :
       \/ T_Debug_Call("DebugGetFromRemote", reg_id, AnyNone, w)
       \/ T_Debug_Call("DebugSetRegister", reg_id, ValueX, w)
  \/ T_DebugGetFromRemote_Return
  \/ T_DebugSetRegister_Return
  \/ T_Destroy_Shutdown
  \/ T_Destroy_Clear
  \/ \E k \in DOMAIN ts.workers_ : T_WorkerRecv(k) \/ T_WorkerExec(k)

SpecThreaded == ThreadedInit /\ [][ThreadedNext]_vars

RequestQueue(k) == ts.workers_[k].channel.controler_to_worker_
ReplyQueue(k) == ts.workers_[k].channel.worker_to_controler_

\* C3: in a threaded session every command the controller broadcast or sent
\* is, once per call and in call order, either received by the worker's loop
\* or pending on that worker's own request queue, for each of the W workers;
\* and what RecvReplyPacked(w) has returned, followed by what is pending on
\* worker w's reply queue, is exactly what worker w itself replied, so no
\* call returns a packet of another worker.
C3_BroadcastFanOut ==
  ts_state \in {"live", "check_failed", "joining"} =>
    \A k \in DOMAIN ts.workers_ :
      /\ h_seen[k] \o RingPackets(RequestQueue(k).ring_buffer) = h_sent[k]
      /\ h_got[k] \o RingPackets(ReplyQueue(k).ring_buffer) = h_replied[k]

C3_Witness ==
  /\ ts_state = "live"
  /\ GetNumWorkers(ts) = 2
  /\ ctl_prev.op = "BroadcastPacked"
  /\ ctl_prev.args = CmdEcho(5)
  /\ ctl_last.op = "RecvReplyPacked"
  /\ ctl_last.worker_id = 1
  /\ ctl_last.args = CmdEcho(5)
  /\ h_got[1] = <<>>
  /\ ReplyQueue(1).msg_cnt = 1

C7_ThreadedConstruction ==
  /\ ts_state \in {"new", "fatal"} => ts = NoSession
  /\ ts_state = "fatal" => ts_num_workers % ts_num_groups # 0
  /\ ts_num_workers % ts_num_groups # 0 => ts_state \in {"new", "fatal"}
  /\ ts_state \in {"live", "check_failed", "joining"} =>
       /\ GetNumWorkers(ts) = ts_num_workers
       /\ DOMAIN ts.workers_ = 1..ts_num_workers
       /\ \A k \in DOMAIN ts.workers_ :
            /\ ts.workers_[k].worker.worker_id = k - 1
            /\ ts.workers_[k].worker.num_workers = ts_num_workers
            /\ ts.workers_[k].worker.num_groups = ts_num_groups
            /\ ts.workers_[k].thread \in {"recv", "exec", "done"}
  /\ (ts_state = "live" /\ ctl_ops = 0) =>
       \A k \in DOMAIN ts.workers_ :
         /\ ts.workers_[k].channel = NewThreadChannel
         /\ ts.workers_[k].thread = "recv"

C7_Witness ==
  /\ ts_state = "fatal"
  /\ ts_num_workers = 1
  /\ ts_num_groups = 2
  /\ ts = NoSession

(***************************************************************************)
(* SpecSocket: SocketSession(num_nodes, num_workers_per_node, num_groups), *)
(* then the controller thread calling the session's methods while the      *)
(* relay of every remote node and every worker thread run.                 *)
(***************************************************************************)
SocketBroadcastCmds == { CmdEcho(5) }
SocketSendCmds(worker_id) == { CmdEcho(60 + worker_id) }

SocketWorkerIds == 0..(SocketGetNumWorkers(ss) - 1)
\* the workers the controller addresses: the first of node 0 and the last of
\* the last node
SocketTargets == { w \in SocketWorkerIds : w = 0 \/ w = SocketGetNumWorkers(ss) - 1 }
RemoteNodes == DOMAIN rn

\* each remote node is started with num_local_workers = num_workers_per_node
NumLocalWorkers == ss_num_workers_per_node

Called(op, worker_id, packed_args) ==
  [op |-> op, worker_id |-> worker_id, args |-> packed_args]

SocketStart ==
  /\ ss_state = "new"
  /\ ss_num_nodes \in 1..MaxNodes
  /\ ss_num_workers_per_node \in 1..MaxWorkersPerNode
  /\ ss_num_groups \in 1..MaxGroups
  /\ ss_num_nodes * ss_num_workers_per_node <= MaxSocketWorkers
  /\ ss = NoSocketSession
  /\ net = NoNet
  /\ rn = <<>>
  /\ sctl = Idle
  /\ s_ops = 0
  /\ s_shutdowns = 0
  /\ s_calls = <<>> /\ s_rets = <<>>
  /\ w_seen = <<>> /\ w_replied = <<>> /\ r_seen = <<>>
  /\ CodecOff /\ QueueOff /\ ThreadedOff /\ GroupsOff

SocketInit == SocketStart /\ s_budget = MaxSocketOps

\* SocketSession(num_nodes, num_workers_per_node, num_groups, host, port)
S_SocketSession ==
  /\ ss_state = "new"
  /\ ss' = SocketSessionObj(ss_num_nodes, ss_num_workers_per_node, ss_num_groups)
  /\ net' = SocketSessionNet(ss_num_nodes, ss_num_workers_per_node, ss_num_groups)
  /\ rn' = [i \in 1..(ss_num_nodes - 1) |-> NoRemote]
  /\ w_seen' = [n \in 1..ss_num_nodes |->
                  [k \in 1..ss_num_workers_per_node |-> <<>>]]
  /\ w_replied' = [n \in 1..ss_num_nodes |->
                     [k \in 1..ss_num_workers_per_node |-> <<>>]]
  /\ r_seen' = [i \in 1..(ss_num_nodes - 1) |-> <<>>]
  /\ ss_state' = "live"
  /\ UNCHANGED <<s_budget, ss_num_nodes, ss_num_workers_per_node, ss_num_groups, sctl,
                 s_ops, s_shutdowns, s_calls, s_rets, notSocket>>

SocketControllerFree ==
  /\ ss_state = "live"
  /\ s_shutdowns = 0
  /\ sctl = Idle
  /\ s_ops < s_budget

\* SocketSessionObj::BroadcastPacked(args)
S_BroadcastPacked(packed_args) ==
  /\ SocketControllerFree
  /\ \E r \in {SocketBroadcastPacked(ss, net, packed_args)} :
       /\ ss' = r.session
       /\ net' = r.net
  /\ s_calls' = Append(s_calls, Called("BroadcastPacked", -1, packed_args))
  /\ s_ops' = s_ops + 1
  /\ UNCHANGED <<s_budget, ss_state, ss_num_nodes, ss_num_workers_per_node,
                 ss_num_groups, rn, sctl, s_shutdowns, s_rets, w_seen,
                 w_replied, r_seen, notSocket>>

\* SocketSessionObj::SendPacked(worker_id, args)
S_SendPacked(worker_id, packed_args) ==
  /\ SocketControllerFree
  /\ \E r \in {SocketSendPacked(ss, net, worker_id, packed_args)} :
       /\ ss' = r.session
       /\ net' = r.net
  /\ s_calls' = Append(s_calls, Called("SendPacked", worker_id, packed_args))
  /\ s_ops' = s_ops + 1
  /\ UNCHANGED <<s_budget, ss_state, ss_num_nodes, ss_num_workers_per_node,
                 ss_num_groups, rn, sctl, s_shutdowns, s_rets, w_seen,
                 w_replied, r_seen, notSocket>>

\* SocketSessionObj::RecvReplyPacked(worker_id), up to where it blocks: in
\* the local session's RecvReplyPacked, or in Recv on the node's channel
\* after the receive request was sent
S_RecvReplyPacked_Call(worker_id) ==
  /\ SocketControllerFree
  /\ net' = SocketRecvReplyRequest(ss, net, worker_id)
  /\ sctl' = [op |-> "RecvReplyPacked", worker_id |-> worker_id]
  /\ s_calls' = Append(s_calls, Called("RecvReplyPacked", worker_id, <<>>))
  /\ s_ops' = s_ops + 1
  /\ UNCHANGED <<s_budget, ss_state, ss_num_nodes, ss_num_workers_per_node,
                 ss_num_groups, ss, rn, s_shutdowns, s_rets, w_seen, w_replied,
                 r_seen, notSocket>>

S_RecvReplyPacked_Return ==
  /\ ss_state = "live"
  /\ sctl.op = "RecvReplyPacked"
  /\ SocketCanRecvReply(ss, net, sctl.worker_id)
  /\ \E r \in {SocketRecvReplyPacked(ss, net, sctl.worker_id)} :
       /\ ss' = r.session
       /\ net' = r.net
       /\ s_rets' = Append(s_rets, Called("RecvReplyPacked", sctl.worker_id, r.args))
  /\ sctl' = Idle
  /\ UNCHANGED <<s_budget, ss_state, ss_num_nodes, ss_num_workers_per_node,
                 ss_num_groups, rn, s_ops, s_shutdowns, s_calls, w_seen,
                 w_replied, r_seen, notSocket>>

\* SocketSessionObj::Shutdown(), called explicitly
S_Shutdown ==
  /\ ss_state = "live"
  /\ sctl = Idle
  /\ s_shutdowns < MaxShutdowns
  /\ \E r \in {SocketShutdown(ss, net)} :
       /\ ss' = r.session
       /\ net' = r.net
  /\ s_shutdowns' = s_shutdowns + 1
  /\ UNCHANGED <<s_budget, ss_state, ss_num_nodes, ss_num_workers_per_node,
                 ss_num_groups, rn, sctl, s_ops, s_calls, s_rets, w_seen,
                 w_replied, r_seen, notSocket>>

\* ~SocketSessionObj: Shutdown()
S_Destroy_Shutdown ==
  /\ ss_state = "live"
  /\ sctl = Idle
  /\ \E r \in {SocketShutdown(ss, net)} :
       /\ ss' = r.session
       /\ net' = r.net
  /\ s_shutdowns' = s_shutdowns + 1
  /\ ss_state' = "destroying"
  /\ UNCHANGED <<s_budget, ss_num_nodes, ss_num_workers_per_node, ss_num_groups, rn,
                 sctl, s_ops, s_calls, s_rets, w_seen, w_replied, r_seen,
                 notSocket>>

\* ~SocketSessionObj: the members are destroyed, local_session_ among them,
\* whose own destructor shuts the local workers down
S_Destroy_Members ==
  /\ ss_state = "destroying"
  /\ ss' = [ss EXCEPT !.local_session_ = SessionShutdown(@)]
  /\ ss_state' = "destroyed"
  /\ UNCHANGED <<s_budget, ss_num_nodes, ss_num_workers_per_node, ss_num_groups, net,
                 rn, sctl, s_ops, s_shutdowns, s_calls, s_rets, w_seen,
                 w_replied, r_seen, notSocket>>

\* remote node i: RemoteSocketSession's constructor, from channel_->Recv()
\* of the metadata on
R_RemoteSocketSession(i) ==
  /\ ss_state # "new"
  /\ rn[i].pc = "connect"
  /\ StreamCanRecv(net.down[i])
  /\ \E r \in {StreamRecv(net.down[i])} :
       /\ rn' = [rn EXCEPT ![i] = RemoteSocketSession(r.args, NumLocalWorkers)]
       /\ net' = [net EXCEPT !.down[i] = r.rest]
  /\ UNCHANGED <<s_budget, ss_state, ss_num_nodes, ss_num_workers_per_node,
                 ss_num_groups, ss, sctl, s_ops, s_shutdowns, s_calls, s_rets,
                 w_seen, w_replied, r_seen, notSocket>>

R_MainLoop_Recv_Polling(i) ==
  /\ rn[i].pc \in {"loop", "reply"}
  /\ StreamCanRecv(net.down[i])
  /\ \E r \in {StreamRecv(net.down[i])} :
       /\ rn' = [rn EXCEPT ![i] = RelayDispatch(@, r.args)]
       /\ net' = [net EXCEPT !.down[i] = r.rest]
       /\ r_seen' = [r_seen EXCEPT ![i] = Append(@, r.args)]
  /\ UNCHANGED <<s_budget, ss_state, ss_num_nodes, ss_num_workers_per_node,
                 ss_num_groups, ss, sctl, s_ops, s_shutdowns, s_calls, s_rets,
                 w_seen, w_replied, notSocket>>

\* remote node i, MainLoop: channel_->Recv() and the switch on the action
R_MainLoop_Recv(i) ==
  /\ rn[i].pc = "loop"
  /\ StreamCanRecv(net.down[i])
  /\ \E r \in {StreamRecv(net.down[i])} :
       /\ rn' = [rn EXCEPT ![i] = RelayDispatch(@, r.args)]
       /\ net' = [net EXCEPT !.down[i] = r.rest]
       /\ r_seen' = [r_seen EXCEPT ![i] = Append(@, r.args)]
  /\ UNCHANGED <<s_budget, ss_state, ss_num_nodes, ss_num_workers_per_node,
                 ss_num_groups, ss, sctl, s_ops, s_shutdowns, s_calls, s_rets,
                 w_seen, w_replied, notSocket>>

\* remote node i, MainLoop, case kReceive: the local RecvReplyPacked returns
\* and the reply is forwarded to the controller
R_MainLoop_Reply(i) ==
  /\ rn[i].pc = "reply"
  /\ CanRecvReplyPacked(rn[i].local_session_, rn[i].local_worker_id)
  /\ \E r \in {RelayReply(rn[i])} :
       /\ rn' = [rn EXCEPT ![i] = r.remote]
       /\ net' = [net EXCEPT !.up[i] = @ \o r.packet]
  /\ UNCHANGED <<s_budget, ss_state, ss_num_nodes, ss_num_workers_per_node,
                 ss_num_groups, ss, sctl, s_ops, s_shutdowns, s_calls, s_rets,
                 w_seen, w_replied, r_seen, notSocket>>

\* remote node i, RemoteSocketSessionEntryPoint once MainLoop has returned:
\* proxy is destroyed and with it local_session_, whose destructor calls
\* Shutdown()
R_Destroy_Shutdown(i) ==
  /\ rn[i].pc = "done"
  /\ rn' = [rn EXCEPT ![i].pc = "joining",
                      ![i].local_session_ = SessionShutdown(@)]
  /\ UNCHANGED <<s_budget, ss_state, ss_num_nodes, ss_num_workers_per_node,
                 ss_num_groups, ss, net, sctl, s_ops, s_shutdowns, s_calls,
                 s_rets, w_seen, w_replied, r_seen, notSocket>>

\* remote node i, the local session's destructor: workers_.clear(), which
\* joins every worker thread
R_Destroy_Clear(i) ==
  /\ rn[i].pc = "joining"
  /\ \A k \in DOMAIN rn[i].local_session_.workers_ :
       rn[i].local_session_.workers_[k].thread = "done"
  /\ rn' = [rn EXCEPT ![i].pc = "destroyed", ![i].local_session_ = NoSession]
  /\ UNCHANGED <<s_budget, ss_state, ss_num_nodes, ss_num_workers_per_node,
                 ss_num_groups, ss, net, sctl, s_ops, s_shutdowns, s_calls,
                 s_rets, w_seen, w_replied, r_seen, notSocket>>

\* the histories of worker k of node n after the turn r of its MainLoop
SeenAfter(n, k, r) == [w_seen EXCEPT ![n][k] = Append(@, r.cmd)]
RepliedAfter(n, k, r) ==
  IF r.reply = NoReply THEN w_replied
  ELSE [w_replied EXCEPT ![n][k] = Append(@, r.reply)]

\* node 0, worker thread k - 1: one turn of MainLoop
S_WorkerTurn(k) ==
  /\ ss_state # "new"
  /\ WorkerCanRecv(ss.local_session_.workers_[k])
  /\ \E r \in {WorkerTurn(ss.local_session_.workers_[k])} :
       /\ ss' = [ss EXCEPT !.local_session_.workers_[k] = r.wt]
       /\ w_seen' = SeenAfter(1, k, r)
       /\ w_replied' = RepliedAfter(1, k, r)
  /\ UNCHANGED <<s_budget, ss_state, ss_num_nodes, ss_num_workers_per_node,
                 ss_num_groups, net, rn, sctl, s_ops, s_shutdowns, s_calls,
                 s_rets, r_seen, notSocket>>

\* remote node i, worker thread k - 1: one turn of MainLoop
R_WorkerTurn(i, k) ==
  /\ WorkerCanRecv(rn[i].local_session_.workers_[k])
  /\ \E r \in {WorkerTurn(rn[i].local_session_.workers_[k])} :
       /\ rn' = [rn EXCEPT ![i].local_session_.workers_[k] = r.wt]
       /\ w_seen' = SeenAfter(i + 1, k, r)
       /\ w_replied' = RepliedAfter(i + 1, k, r)
  /\ UNCHANGED <<s_budget, ss_state, ss_num_nodes, ss_num_workers_per_node,
                 ss_num_groups, ss, net, sctl, s_ops, s_shutdowns, s_calls,
                 s_rets, r_seen, notSocket>>

SocketNext ==
  \/ S_SocketSession
  \/ \E packed_args \in SocketBroadcastCmds : S_BroadcastPacked(packed_args)
  \/ \E w \in SocketTargets : \E packed_args \in SocketSendCmds(w) :
       S_SendPacked(w, packed_args)
  \/ \E w \in SocketTargets : S_RecvReplyPacked_Call(w)
  \/ S_RecvReplyPacked_Return
  \/ \E i \in RemoteNodes : R_RemoteSocketSession(i)
  \/ \E i \in RemoteNodes : R_MainLoop_Recv(i)
  \/ \E i \in RemoteNodes : R_MainLoop_Reply(i)
  \/ \E k \in DOMAIN ss.local_session_.workers_ : S_WorkerTurn(k)
  \/ \E i \in RemoteNodes : \E k \in DOMAIN rn[i].local_session_.workers_ :
       R_WorkerTurn(i, k)

SpecSocket == SocketInit /\ [][SocketNext]_vars

(***************************************************************************)
(* SpecShutdown: the same session, its controller sending at most          *)
(* MaxShutdownOps commands before it calls Shutdown() and destroys the     *)
(* session.                                                                *)
(***************************************************************************)
ShutdownInit == SocketStart /\ s_budget = MaxShutdownOps

ShutdownNext ==
  \/ S_SocketSession
  \/ \E packed_args \in SocketBroadcastCmds : S_BroadcastPacked(packed_args)
  \/ \E w \in SocketTargets : \E packed_args \in SocketSendCmds(w) :
       S_SendPacked(w, packed_args)
  \/ S_Shutdown
  \/ S_Destroy_Shutdown
  \/ S_Destroy_Members
  \/ \E i \in RemoteNodes : R_RemoteSocketSession(i)
  \/ \E i \in RemoteNodes : R_MainLoop_Recv(i)
  \/ \E i \in RemoteNodes : R_Destroy_Shutdown(i)
  \/ \E i \in RemoteNodes : R_Destroy_Clear(i)
  \/ \E k \in DOMAIN ss.local_session_.workers_ : S_WorkerTurn(k)
  \/ \E i \in RemoteNodes : \E k \in DOMAIN rn[i].local_session_.workers_ :
       R_WorkerTurn(i, k)

SpecShutdown == ShutdownInit /\ [][ShutdownNext]_vars

(***************************************************************************)
(* SpecRelay: a socket session whose controller sends, receives replies    *)
(* and shuts down, with every relay in RemoteSocketSessionEntryPoint:      *)
(* constructor, MainLoop, destructor.                                      *)
(***************************************************************************)
RelayInit == SocketStart /\ s_budget = MaxRelayOps

RelayNext ==
  \/ S_SocketSession
  \/ \E packed_args \in SocketBroadcastCmds : S_BroadcastPacked(packed_args)
  \/ \E w \in SocketTargets : \E packed_args \in SocketSendCmds(w) :
       S_SendPacked(w, packed_args)
  \/ \E w \in SocketTargets : S_RecvReplyPacked_Call(w)
  \/ S_RecvReplyPacked_Return
  \/ S_Shutdown
  \/ \E i \in RemoteNodes : R_RemoteSocketSession(i)
  \/ \E i \in RemoteNodes : R_MainLoop_Recv(i)
  \/ \E i \in RemoteNodes : R_MainLoop_Reply(i)
  \/ \E i \in RemoteNodes : R_Destroy_Shutdown(i)
  \/ \E i \in RemoteNodes : R_Destroy_Clear(i)
  \/ \E k \in DOMAIN ss.local_session_.workers_ : S_WorkerTurn(k)
  \/ \E i \in RemoteNodes : \E k \in DOMAIN rn[i].local_session_.workers_ :
       R_WorkerTurn(i, k)

SpecRelay == RelayInit /\ [][RelayNext]_vars

(***************************************************************************)
(* SpecEntryPoint: RemoteSocketSessionEntryPoint(host, port,               *)
(* num_local_workers) on every remote node, started with any               *)
(* num_local_workers, and a peer at the other end of the connection that   *)
(* after the handshake forwards envelopes of its own choice, well-formed   *)
(* or not.                                                                 *)
(***************************************************************************)
LocalWorkerCounts == 1..(MaxWorkersPerNode + 1)

\* action codes that are no DiscoSocketAction
UnknownActions == {DiscoSocketAction.kShutdown - 1, DiscoSocketAction.kReceive + 1}

\* what the peer can forward to remote node i, whose first worker is w
ForwardedEnvelopes(w) ==
  { SendEnvelope(w, CmdEcho(60 + w)), BroadcastEnvelope(CmdEcho(5)),
    ReceiveEnvelope(w), ShutdownEnvelope }
  \cup { <<AnyInt(a), AnyInt(w)>> \o CmdEcho(5) : a \in UnknownActions }

EntryPointInit ==
  SocketStart /\ ss_num_nodes <= MaxEntryNodes /\ s_budget = MaxForwardOps

\* the peer writes one envelope on the connection of remote node i
P_Forward(i, envelope) ==
  /\ ss_state = "live"
  /\ s_ops < s_budget
  /\ net' = StreamSend(net, ss.remote_channels_[i], envelope)
  /\ s_calls' = Append(s_calls, Called("Forward", i, envelope))
  /\ s_ops' = s_ops + 1
  /\ UNCHANGED <<s_budget, ss_state, ss_num_nodes, ss_num_workers_per_node,
                 ss_num_groups, ss, rn, sctl, s_shutdowns, s_rets, w_seen,
                 w_replied, r_seen, notSocket>>

\* RemoteSocketSessionEntryPoint: proxy(server_host, server_port,
\* num_local_workers), the constructor up to InitLocalSession
R_EntryPoint(i, num_local_workers) ==
  /\ ss_state # "new"
  /\ rn[i].pc = "connect"
  /\ StreamCanRecv(net.down[i])
  /\ \E r \in {StreamRecv(net.down[i])} :
       /\ rn' = [rn EXCEPT ![i] = RemoteSocketSession(r.args, num_local_workers)]
       /\ net' = [net EXCEPT !.down[i] = r.rest]
  /\ s_calls' = Append(s_calls, Called("RemoteSocketSession", i,
                                       <<AnyInt(num_local_workers)>>))
  /\ UNCHANGED <<s_budget, ss_state, ss_num_nodes, ss_num_workers_per_node,
                 ss_num_groups, ss, sctl, s_ops, s_shutdowns, s_rets,
                 w_seen, w_replied, r_seen, notSocket>>

EntryPointNext ==
  \/ S_SocketSession
  \/ \E i \in RemoteNodes :
       \E envelope \in ForwardedEnvelopes(i * ss_num_workers_per_node) :
         P_Forward(i, envelope)
  \/ \E i \in RemoteNodes : \E n \in LocalWorkerCounts : R_EntryPoint(i, n)
  \/ \E i \in RemoteNodes : R_MainLoop_Recv(i)
  \/ \E i \in RemoteNodes : R_MainLoop_Reply(i)
  \/ \E i \in RemoteNodes : R_Destroy_Shutdown(i)
  \/ \E i \in RemoteNodes : R_Destroy_Clear(i)
  \/ \E i \in RemoteNodes : \E k \in DOMAIN rn[i].local_session_.workers_ :
       R_WorkerTurn(i, k)

SpecEntryPoint == EntryPointInit /\ [][EntryPointNext]_vars

(***************************************************************************)
(* SpecBlockedReceive: the controller calling RecvReplyPacked while        *)
(* another writer on the same connections forwards envelopes of its own    *)
(* choice, so that commands can follow a receive request that is never     *)
(* answered.                                                               *)
(***************************************************************************)
BlockedReceiveInit == EntryPointInit

BlockedReceiveNext ==
  \/ S_SocketSession
  \/ \E w \in SocketTargets : S_RecvReplyPacked_Call(w)
  \/ S_RecvReplyPacked_Return
  \/ \E i \in RemoteNodes :
       \E envelope \in ForwardedEnvelopes(i * ss_num_workers_per_node) :
         P_Forward(i, envelope)
  \/ \E i \in RemoteNodes : R_RemoteSocketSession(i)
  \/ \E i \in RemoteNodes : R_MainLoop_Recv(i)
  \/ \E i \in RemoteNodes : R_MainLoop_Reply(i)
  \/ \E i \in RemoteNodes : R_Destroy_Shutdown(i)
  \/ \E i \in RemoteNodes : R_Destroy_Clear(i)
  \/ \E i \in RemoteNodes : \E k \in DOMAIN rn[i].local_session_.workers_ :
       R_WorkerTurn(i, k)

SpecBlockedReceive == BlockedReceiveInit /\ [][BlockedReceiveNext]_vars

(***************************************************************************)
(* SpecAddressing: the same session, its controller making one call that   *)
(* names a worker outside [0, GetNumWorkers()).                            *)
(***************************************************************************)
\* how a call that did not return normally ended
Threw == [op |-> "threw"]       \* std::out_of_range left the call
Crashed == [op |-> "crashed"]   \* the process died inside the call
Blocked == [op |-> "blocked"]   \* the call waits in Recv() for good

\* the worker ids just outside the range, at either end
BadWorkerIds == { -1, SocketGetNumWorkers(ss) }

\* remote_channels_[node_id - 1]: vector::operator[] does not check the
\* index.  Inside the vector it names that channel; outside, the behaviour
\* is undefined: the pointer read there is not one to a channel and the
\* call crashes (0 here), or it is a pointer to one of the live channels
ChannelsAt(session, node_id) ==
  IF node_id \in DOMAIN session.remote_channels_ THEN {node_id}
  ELSE {0} \cup DOMAIN session.remote_channels_

\* the envelopes of DebugGetFromRemote and DebugSetRegister for a remote node
DebugGetEnvelope(reg_id, worker_id) ==
  <<AnyInt(DiscoSocketAction.kSend), AnyInt(worker_id),
    AnyInt(DiscoAction.kDebugGetFromRemote), AnyInt(reg_id), AnyInt(worker_id)>>
DebugSetEnvelope(reg_id, worker_id, value) ==
  <<AnyInt(DiscoSocketAction.kSend), AnyInt(worker_id),
    AnyInt(DiscoAction.kDebugSetRegister), AnyInt(reg_id), AnyInt(worker_id),
    value>>

AddressingInit == SocketStart /\ s_budget = MaxAddressingOps

\* SocketSessionObj::SendPacked(worker_id, args), worker_id out of range:
\* node 0 is the local session, whose workers_.at(worker_id) throws
A_SendPacked(worker_id, packed_args) ==
  /\ SocketControllerFree
  /\ worker_id \notin SocketWorkerIds
  /\ IF NodeIdOf(ss, worker_id) = 0
       THEN sctl' = Threw /\ UNCHANGED <<ss, net>>
       ELSE \E c \in ChannelsAt(ss, NodeIdOf(ss, worker_id)) :
              IF c = 0 THEN sctl' = Crashed /\ UNCHANGED <<ss, net>>
              ELSE /\ net' = StreamSend(net, ss.remote_channels_[c],
                                        SendEnvelope(worker_id, packed_args))
                   /\ UNCHANGED <<ss, sctl>>
  /\ s_calls' = Append(s_calls, Called("SendPacked", worker_id, packed_args))
  /\ s_ops' = s_ops + 1
  /\ UNCHANGED <<s_budget, ss_state, ss_num_nodes, ss_num_workers_per_node,
                 ss_num_groups, rn, s_shutdowns, s_rets, w_seen, w_replied,
                 r_seen, notSocket>>

\* SocketSessionObj::RecvReplyPacked(worker_id), worker_id out of range: for
\* another node the receive request is sent, then Recv() on the same channel
A_RecvReplyPacked(worker_id) ==
  /\ SocketControllerFree
  /\ worker_id \notin SocketWorkerIds
  /\ IF NodeIdOf(ss, worker_id) = 0
       THEN sctl' = Threw /\ UNCHANGED <<ss, net>>
       ELSE \E c \in ChannelsAt(ss, NodeIdOf(ss, worker_id)) :
              IF c = 0 THEN sctl' = Crashed /\ UNCHANGED <<ss, net>>
              ELSE /\ net' = StreamSend(net, ss.remote_channels_[c],
                                        ReceiveEnvelope(worker_id))
                   /\ sctl' = Blocked
                   /\ UNCHANGED ss
  /\ s_calls' = Append(s_calls, Called("RecvReplyPacked", worker_id, <<>>))
  /\ s_ops' = s_ops + 1
  /\ UNCHANGED <<s_budget, ss_state, ss_num_nodes, ss_num_workers_per_node,
                 ss_num_groups, rn, s_shutdowns, s_rets, w_seen, w_replied,
                 r_seen, notSocket>>

\* SocketSessionObj::DebugGetFromRemote / DebugSetRegister, worker_id out of
\* range.  Node 0 is the local session's method: SyncWorker(worker_id)
\* broadcasts the sync command, then its RecvReplyPacked throws in
\* workers_.at(worker_id).  Another node: the envelope is sent, then
\* RecvReplyPacked(worker_id) as above
A_Debug(op, envelope, worker_id) ==
  /\ SocketControllerFree
  /\ worker_id \notin SocketWorkerIds
  /\ IF NodeIdOf(ss, worker_id) = 0
       THEN /\ ss' = [ss EXCEPT !.local_session_ = SyncWorkerSend(@, worker_id)]
            /\ sctl' = Threw
            /\ UNCHANGED net
       ELSE \E c \in ChannelsAt(ss, NodeIdOf(ss, worker_id)) :
              IF c = 0 THEN sctl' = Crashed /\ UNCHANGED <<ss, net>>
              ELSE /\ net' = StreamSend(
                               StreamSend(net, ss.remote_channels_[c], envelope),
                               ss.remote_channels_[c], ReceiveEnvelope(worker_id))
                   /\ sctl' = Blocked
                   /\ UNCHANGED ss
  /\ s_calls' = Append(s_calls, Called(op, worker_id, envelope))
  /\ s_ops' = s_ops + 1
  /\ UNCHANGED <<s_budget, ss_state, ss_num_nodes, ss_num_workers_per_node,
                 ss_num_groups, rn, s_shutdowns, s_rets, w_seen, w_replied,
                 r_seen, notSocket>>

AddressingNext ==
  \/ S_SocketSession
  \/ \E w \in BadWorkerIds : \E packed_args \in SocketSendCmds(0) :
       A_SendPacked(w, packed_args)
  \/ \E w \in BadWorkerIds : A_RecvReplyPacked(w)
  \/ \E w \in BadWorkerIds : \E reg_id \in RegIds :
       \/ A_Debug("DebugGetFromRemote", DebugGetEnvelope(reg_id, w), w)
       \/ A_Debug("DebugSetRegister", DebugSetEnvelope(reg_id, w, ValueX), w)
  \/ \E i \in RemoteNodes : R_RemoteSocketSession(i)
  \/ \E i \in RemoteNodes : R_MainLoop_Recv(i)
  \/ \E k \in DOMAIN ss.local_session_.workers_ : S_WorkerTurn(k)
  \/ \E i \in RemoteNodes : \E k \in DOMAIN rn[i].local_session_.workers_ :
       R_WorkerTurn(i, k)

SpecAddressing == AddressingInit /\ [][AddressingNext]_vars

(***************************************************************************)
(* SpecDebug: the same session, its controller calling DebugGetFromRemote  *)
(* and DebugSetRegister on remote workers, between targeted commands and   *)
(* receive requests of its own.  A failed ICHECK throws InternalError out  *)
(* of the call and the controller goes on.                                 *)
(***************************************************************************)
\* the workers of remote nodes that the controller addresses
RemoteTargets == { w \in SocketTargets : NodeIdOf(ss, w) # 0 }

DebugRequest_NoReceive(session, net_, worker_id, envelope) ==
  StreamSend(net_, session.remote_channels_[NodeIdOf(session, worker_id)],
             envelope)

\* DebugGetFromRemote / DebugSetRegister, node_id # 0, up to where the call
\* blocks: remote_channels_[node_id - 1]->Send(envelope), then
\* RecvReplyPacked(worker_id) sends the receive request
DebugRequest(session, net_, worker_id, envelope) ==
  SocketRecvReplyRequest(
    session,
    StreamSend(net_, session.remote_channels_[NodeIdOf(session, worker_id)],
               envelope),
    worker_id)

DebugGetReplyOk_SizeOnly(packed_args) == Len(packed_args) = 2

\* DebugGetFromRemote: ICHECK_EQ(args.size(), 2); ICHECK(args[0] ==
\* kDebugGetFromRemote)
DebugGetReplyOk(packed_args) ==
  /\ Len(packed_args) = 2
  /\ packed_args[1] = AnyInt(DiscoAction.kDebugGetFromRemote)

\* DebugSetRegister: ICHECK_EQ(args.size(), 1); ICHECK(args[0] ==
\* kDebugSetRegister)
DebugSetReplyOk(packed_args) ==
  /\ Len(packed_args) = 1
  /\ packed_args[1] = AnyInt(DiscoAction.kDebugSetRegister)

\* what the call hands back once RecvReplyPacked has returned packed_args:
\* result = args[1] for a get, nothing for a set, InternalError when an
\* ICHECK fails
DebugReturn(op, worker_id, packed_args) ==
  IF op = "DebugGetFromRemote"
    THEN IF DebugGetReplyOk(packed_args)
           THEN Called(op, worker_id, <<packed_args[2]>>)
           ELSE Called("InternalError", worker_id, packed_args)
    ELSE IF DebugSetReplyOk(packed_args)
           THEN Called(op, worker_id, <<>>)
           ELSE Called("InternalError", worker_id, packed_args)

\* the targeted commands of this specification: their replies have four
\* fields and two fields
DebugSendCmds(worker_id) ==
  SocketSendCmds(worker_id) \cup { CmdSyncWorker(worker_id) }

DebugInit ==
  SocketStart /\ ss_num_nodes <= MaxEntryNodes /\ s_budget = MaxDebugOps

\* SocketSessionObj::DebugGetFromRemote(reg_id, worker_id), node_id # 0, up
\* to where it blocks in Recv on the node's channel
S_DebugGetFromRemote_Call(reg_id, worker_id) ==
  /\ SocketControllerFree
  /\ net' = DebugRequest(ss, net, worker_id,
                         DebugGetEnvelope(reg_id, worker_id))
  /\ sctl' = [op |-> "DebugGetFromRemote", worker_id |-> worker_id]
  /\ s_calls' = Append(s_calls, Called("DebugGetFromRemote", worker_id,
                                       <<AnyInt(reg_id)>>))
  /\ s_ops' = s_ops + 1
  /\ UNCHANGED <<s_budget, ss_state, ss_num_nodes, ss_num_workers_per_node,
                 ss_num_groups, ss, rn, s_shutdowns, s_rets, w_seen, w_replied,
                 r_seen, notSocket>>

\* SocketSessionObj::DebugSetRegister(reg_id, value, worker_id), node_id # 0,
\* up to where it blocks in Recv on the node's channel
S_DebugSetRegister_Call(reg_id, value, worker_id) ==
  /\ SocketControllerFree
  /\ net' = DebugRequest(ss, net, worker_id,
                         DebugSetEnvelope(reg_id, worker_id, value))
  /\ sctl' = [op |-> "DebugSetRegister", worker_id |-> worker_id]
  /\ s_calls' = Append(s_calls, Called("DebugSetRegister", worker_id,
                                       <<AnyInt(reg_id), value>>))
  /\ s_ops' = s_ops + 1
  /\ UNCHANGED <<s_budget, ss_state, ss_num_nodes, ss_num_workers_per_node,
                 ss_num_groups, ss, rn, s_shutdowns, s_rets, w_seen, w_replied,
                 r_seen, notSocket>>

\* the rest of either call: RecvReplyPacked returns, the two ICHECKs, return
S_Debug_Return ==
  /\ ss_state = "live"
  /\ sctl.op \in {"DebugGetFromRemote", "DebugSetRegister"}
  /\ SocketCanRecvReply(ss, net, sctl.worker_id)
  /\ \E r \in {SocketRecvReplyPacked(ss, net, sctl.worker_id)} :
       /\ ss' = r.session
       /\ net' = r.net
       /\ s_rets' = Append(s_rets, DebugReturn(sctl.op, sctl.worker_id, r.args))
  /\ sctl' = Idle
  /\ UNCHANGED <<s_budget, ss_state, ss_num_nodes, ss_num_workers_per_node,
                 ss_num_groups, rn, s_ops, s_shutdowns, s_calls, w_seen,
                 w_replied, r_seen, notSocket>>

DebugNext ==
  \/ S_SocketSession
  \/ \E w \in RemoteTargets : \E packed_args \in DebugSendCmds(w) :
       S_SendPacked(w, packed_args)
  \/ \E w \in RemoteTargets : S_RecvReplyPacked_Call(w)
  \/ S_RecvReplyPacked_Return
  \/ \E w \in RemoteTargets : \E reg_id \in RegIds :
       S_DebugGetFromRemote_Call(reg_id, w)
  \/ \E w \in RemoteTargets : \E reg_id \in RegIds :
       S_DebugSetRegister_Call(reg_id, ValueX, w)
  \/ S_Debug_Return
  \/ \E i \in RemoteNodes : R_RemoteSocketSession(i)
  \/ \E i \in RemoteNodes : R_MainLoop_Recv(i)
  \/ \E i \in RemoteNodes : R_MainLoop_Reply(i)
  \/ \E i \in RemoteNodes : \E k \in DOMAIN rn[i].local_session_.workers_ :
       R_WorkerTurn(i, k)

SpecDebug == DebugInit /\ [][DebugNext]_vars

(***************************************************************************)
(* SpecGroups: the workers of one session calling SendToNextGroup and      *)
(* RecvFromPrevGroup.  A group is num_workers / num_groups workers with     *)
(* consecutive ids.                                                        *)
(***************************************************************************)
GroupBuffers == {41, 42}

GroupError == [error |-> TRUE, peer |-> -1]
GroupPeer(worker_id) == [error |-> FALSE, peer |-> worker_id]

\* SendToNextGroup: the receiver, or the error of the last group
SendToNextGroup_NextWorker(worker_id, num_workers, num_groups) ==
  IF worker_id + 1 >= num_workers
    THEN GroupError
    ELSE GroupPeer(worker_id + 1)

SendToNextGroup(worker_id, num_workers, num_groups) ==
  IF worker_id + num_workers \div num_groups >= num_workers
    THEN GroupError
    ELSE GroupPeer(worker_id + num_workers \div num_groups)

\* RecvFromPrevGroup: the sender, or the error of the first group
RecvFromPrevGroup(worker_id, num_workers, num_groups) ==
  IF worker_id - num_workers \div num_groups < 0
    THEN GroupError
    ELSE GroupPeer(worker_id - num_workers \div num_groups)

GroupCall(op, worker_id, result, buffer) ==
  [op |-> op, worker_id |-> worker_id, result |-> result, buffer |-> buffer]

\* the oldest buffer in flight from one worker to another, 0 when none
RECURSIVE OldestFrom(_, _, _, _)
OldestFrom(inflight, from, to, i) ==
  IF i > Len(inflight) THEN 0
  ELSE IF inflight[i].from = from /\ inflight[i].to = to THEN i
  ELSE OldestFrom(inflight, from, to, i + 1)

Without(inflight, i) ==
  SubSeq(inflight, 1, i - 1) \o SubSeq(inflight, i + 1, Len(inflight))

GroupsInit ==
  /\ g_state = "on"
  /\ g_num_workers \in 1..MaxGroupWorkers
  /\ g_num_groups \in { n \in 1..MaxGroupWorkers : g_num_workers % n = 0 }
  /\ g_calls = <<>>
  /\ g_inflight = <<>>
  /\ CodecOff /\ QueueOff /\ ThreadedOff /\ SocketOff

\* a worker calls SendToNextGroup(buffer)
G_SendToNextGroup(worker_id, buffer) ==
  /\ g_state = "on"
  /\ Len(g_calls) < MaxGroupOps
  /\ \E r \in {SendToNextGroup(worker_id, g_num_workers, g_num_groups)} :
         /\ g_calls' = Append(g_calls, GroupCall("send", worker_id, r, buffer))
         /\ g_inflight' =
              IF r.error THEN g_inflight
              ELSE Append(g_inflight,
                          [from |-> worker_id, to |-> r.peer, buffer |-> buffer])
  /\ UNCHANGED <<g_state, g_num_workers, g_num_groups, notGroups>>

\* a worker calls RecvFromPrevGroup(buffer); it returns once its sender's
\* buffer has arrived
G_RecvFromPrevGroup(worker_id) ==
  /\ g_state = "on"
  /\ Len(g_calls) < MaxGroupOps
  /\ \E r \in {RecvFromPrevGroup(worker_id, g_num_workers, g_num_groups)} :
       IF r.error
         THEN /\ g_calls' = Append(g_calls, GroupCall("recv", worker_id, r, 0))
              /\ UNCHANGED g_inflight
         ELSE \E i \in {OldestFrom(g_inflight, r.peer, worker_id, 1)} :
                /\ i > 0
                /\ g_calls' = Append(g_calls,
                     GroupCall("recv", worker_id, r, g_inflight[i].buffer))
                /\ g_inflight' = Without(g_inflight, i)
  /\ UNCHANGED <<g_state, g_num_workers, g_num_groups, notGroups>>

GroupsNext ==
  \/ \E worker_id \in 0..(g_num_workers - 1), buffer \in GroupBuffers :
       G_SendToNextGroup(worker_id, buffer)
  \/ \E worker_id \in 0..(g_num_workers - 1) : G_RecvFromPrevGroup(worker_id)

SpecGroups == GroupsInit /\ [][GroupsNext]_vars

(***************************************************************************)
(* What the histories and the queues say about one worker.  Node n and     *)
(* worker k count from 1 here; the worker's id in the session is           *)
(* (n - 1) * num_workers_per_node + (k - 1).                               *)
(***************************************************************************)
GlobalId(n, k) == (n - 1) * ss_num_workers_per_node + (k - 1)
NodeSession(n) == IF n = 1 THEN ss.local_session_ ELSE rn[n - 1].local_session_
Nodes == DOMAIN w_seen
WorkersOf(n) == DOMAIN w_seen[n]

\* the arguments of the calls of a history, in order
ArgsOf(calls) == [j \in 1..Len(calls) |-> calls[j].args]

\* the commands the controller broadcast, and those it sent to worker w
Broadcasts(calls) ==
  LET Is(c) == c.op = "BroadcastPacked" IN ArgsOf(SelectSeq(calls, Is))
TargetedTo(calls, w) ==
  LET Is(c) == c.op = "SendPacked" /\ c.worker_id = w
  IN  ArgsOf(SelectSeq(calls, Is))
CommandsTo(calls, w) ==
  LET Is(c) == \/ c.op = "BroadcastPacked"
               \/ c.op = "SendPacked" /\ c.worker_id = w
  IN  ArgsOf(SelectSeq(calls, Is))
\* what RecvReplyPacked(w) returned, call after call
Rets(w) ==
  LET Is(c) == c.worker_id = w IN ArgsOf(SelectSeq(s_rets, Is))

\* the envelopes on the way to remote node i, the metadata packet left out
PendingEnvelopes(i) ==
  IF rn[i].pc = "connect" THEN Tail(RingPackets(net.down[i]))
  ELSE RingPackets(net.down[i])
\* every envelope the controller has put on the channel of remote node i
Envelopes(i) == r_seen[i] \o PendingEnvelopes(i)

\* the commands on worker k's request queue in node n
QueuedAt(n, k) ==
  IF k \in DOMAIN NodeSession(n).workers_
    THEN RingPackets(NodeSession(n).workers_[k].channel.controler_to_worker_.ring_buffer)
    ELSE <<>>
\* the replies on worker k's reply queue in node n
RepliesAt(n, k) ==
  IF k \in DOMAIN NodeSession(n).workers_
    THEN RingPackets(NodeSession(n).workers_[k].channel.worker_to_controler_.ring_buffer)
    ELSE <<>>
\* the commands still in envelopes on the way to node n that are for worker k
ForwardedTo(n, k) ==
  IF n = 1 THEN <<>>
  ELSE LET For(e) == /\ IntOf(e[1]) = DiscoSocketAction.kSend
                     /\ IntOf(e[2]) \in {-1, GlobalId(n, k)}
           sel == SelectSeq(PendingEnvelopes(n - 1), For)
       IN  [j \in 1..Len(sel) |-> SubSeq(sel[j], 3, Len(sel[j]))]
\* every command worker k of node n has received or is still to receive
Delivered(n, k) == w_seen[n][k] \o QueuedAt(n, k) \o ForwardedTo(n, k)

IsBroadcastCmd(cmd) == cmd \in SocketBroadcastCmds
IsTargetedCmd(cmd) ==
  \E w \in 0..(MaxNodes * MaxWorkersPerNode) : cmd \in SocketSendCmds(w)
IsBroadcastEnvelope(e) ==
  IntOf(e[1]) = DiscoSocketAction.kSend /\ IntOf(e[2]) = -1
IsTargetedEnvelope(e) ==
  IntOf(e[1]) # DiscoSocketAction.kShutdown /\ IntOf(e[2]) # -1

\* C5: every Shutdown() call of a socket session, the destructor's included,
\* ends without a socket error, and a call that is not the first one leaves
\* every field of the session, every connection's bytes (so no shutdown
\* packet is sent) and the set of open descriptors (so nothing is closed
\* again) as they were.
C5_ShutdownTwice ==
  [][ s_shutdowns' > s_shutdowns =>
        /\ ~net'.error
        /\ s_shutdowns >= 1 => (ss' = ss /\ net' = net) ]_vars

C5_Witness ==
  /\ s_shutdowns = 2
  /\ ss_state = "live"
  /\ ss_num_nodes = 3
  /\ ~net.error
  /\ net.open = {}
  /\ \A i \in RemoteNodes : ShutdownEnvelope \in { Envelopes(i)[j] : j \in 1..Len(Envelopes(i)) }
  /\ rn[1].pc = "done"

\* a local threaded session's replies: worker_id is sent each command of
\* cmds in turn, its thread executes it, and RecvReplyPacked(worker_id)
\* collects the reply when there is one
RECURSIVE ThreadedReplies(_, _, _)
ThreadedTurn(session, worker_id) ==
  [session EXCEPT !.workers_[worker_id + 1] = WorkerExec(WorkerRecv(@))]
ThreadedRepliesPop(r, worker_id, cmds) ==
  <<r.args>> \o ThreadedReplies(r.session, worker_id, cmds)
ThreadedRepliesAfter(session, worker_id, cmds) ==
  IF CanRecvReplyPacked(session, worker_id)
    THEN ThreadedRepliesPop(RecvReplyPacked(session, worker_id), worker_id, cmds)
    ELSE ThreadedReplies(session, worker_id, cmds)
ThreadedReplies(session, worker_id, cmds) ==
  IF cmds = <<>> THEN <<>>
  ELSE ThreadedRepliesAfter(
         ThreadedTurn(SendPacked(session, worker_id, Head(cmds)), worker_id),
         worker_id, Tail(cmds))

IsPrefix(a, b) == Len(a) <= Len(b) /\ a = SubSeq(b, 1, Len(a))

\* the number of calls among the first j that put a reply of worker w in
\* line, and the number of RecvReplyPacked(w) calls among them
CommandsBefore(j, w) == Len(CommandsTo(SubSeq(s_calls, 1, j), w))
ReceivesBefore(j, w) ==
  Cardinality({ i \in 1..j : /\ s_calls[i].op = "RecvReplyPacked"
                              /\ s_calls[i].worker_id = w })

\* C6: in a 2-node socket session, for every worker w of node 1, what the
\* RecvReplyPacked(w) calls returned is what a local threaded session of
\* workers_per_node workers returns to RecvReplyPacked(w - workers_per_node)
\* when its worker w - workers_per_node is given the same commands; and when
\* SendPacked(w, A) with an echo command A is directly followed by
\* RecvReplyPacked(w), no earlier reply of w being unread, that call returns A.
C6_RemoteAsLocal ==
  (ss_state = "live" /\ ss_num_nodes = 2) =>
    \A w \in ss_num_workers_per_node..(2 * ss_num_workers_per_node - 1) :
      /\ IsPrefix(Rets(w),
                  ThreadedReplies(CreateLocalWorkers(ss_num_workers_per_node),
                                  w - ss_num_workers_per_node,
                                  CommandsTo(s_calls, w)))
      /\ \A j \in 1..(Len(s_calls) - 1) :
           ( /\ s_calls[j].op = "SendPacked"
             /\ s_calls[j].worker_id = w
             /\ s_calls[j + 1].op = "RecvReplyPacked"
             /\ s_calls[j + 1].worker_id = w
             /\ CommandsBefore(j - 1, w) = ReceivesBefore(j - 1, w)
             /\ Len(Rets(w)) > ReceivesBefore(j - 1, w) )
           => Rets(w)[ReceivesBefore(j - 1, w) + 1] = s_calls[j].args

C6_Witness ==
  /\ ss_state = "live"
  /\ ss_num_nodes = 2
  /\ ss_num_workers_per_node = 2
  /\ Len(s_calls) = 2
  /\ s_calls[1] = Called("SendPacked", 3, CmdEcho(63))
  /\ s_calls[2] = Called("RecvReplyPacked", 3, <<>>)
  /\ s_rets = <<Called("RecvReplyPacked", 3, CmdEcho(63))>>

\* C8, as the specification states it: no socket session exists whose total
\* worker count num_nodes * num_workers_per_node is not a multiple of
\* num_groups, construction having failed instead.
C8_GroupsDivideWorkers ==
  ss_state # "new" =>
    /\ SocketGetNumWorkers(ss) % ss_num_groups = 0
    /\ \A k \in DOMAIN ss.local_session_.workers_ :
         LET worker == ss.local_session_.workers_[k].worker
         IN  worker.num_workers % worker.num_groups = 0

\* C9: in a socket session, for every worker of every node, the broadcast
\* commands it has received or is still to receive (on its request queue, or
\* in an envelope on the way to its node) are exactly the commands the
\* controller broadcast, each once and unchanged, in order; and the
\* broadcast envelopes put on each remote node's channel are exactly one
\* [send, -1, A...] per BroadcastPacked(A).
C9_BroadcastReachesAll ==
  ss_state = "live" =>
    /\ \A n \in Nodes : \A k \in WorkersOf(n) :
         SelectSeq(Delivered(n, k), IsBroadcastCmd) = Broadcasts(s_calls)
    /\ \A i \in RemoteNodes :
         SelectSeq(Envelopes(i), IsBroadcastEnvelope)
           = [j \in 1..Len(Broadcasts(s_calls)) |->
                <<AnyInt(DiscoSocketAction.kSend), AnyInt(-1)>>
                  \o Broadcasts(s_calls)[j]]

C9_Witness ==
  /\ ss_state = "live"
  /\ ss_num_nodes = 2
  /\ ss_num_workers_per_node = 2
  /\ Broadcasts(s_calls) = <<CmdEcho(5)>>
  /\ \A n \in Nodes : \A k \in WorkersOf(n) :
       /\ CmdEcho(5) \in { w_seen[n][k][j] : j \in 1..Len(w_seen[n][k]) }
       /\ QueuedAt(n, k) = <<>>
  /\ r_seen[1] = <<<<AnyInt(DiscoSocketAction.kSend), AnyInt(-1)>> \o CmdEcho(5)>>

\* the envelopes SendPacked and RecvReplyPacked are to put on the channel of
\* node node_id for the calls of a history
RECURSIVE TargetedEnvelopes(_, _)
TargetedEnvelopes(calls, node_id) ==
  IF calls = <<>> THEN <<>>
  ELSE LET c == Head(calls)
           mine == c.worker_id \div ss_num_workers_per_node = node_id
       IN  ( IF c.op = "SendPacked" /\ mine
               THEN << <<AnyInt(DiscoSocketAction.kSend), AnyInt(c.worker_id)>>
                       \o c.args >>
             ELSE IF c.op = "RecvReplyPacked" /\ mine
               THEN << <<AnyInt(DiscoSocketAction.kReceive), AnyInt(c.worker_id)>> >>
             ELSE <<>> )
           \o TargetedEnvelopes(Tail(calls), node_id)

\* the reply on the way up from node n that is for worker k
ReplyInFlight(n, k) ==
  IF n > 1 /\ sctl.op = "RecvReplyPacked" /\ sctl.worker_id = GlobalId(n, k)
    THEN RingPackets(net.up[n - 1]) ELSE <<>>

\* C10: in a socket session, the envelopes that name a worker on the channel
\* of remote node node_id are exactly those of the SendPacked(w, A) and
\* RecvReplyPacked(w) calls with w / workers_per_node = node_id, so calls for
\* node 0 put nothing on any socket and calls for another node use its
\* channel only; the targeted commands that reach worker k of node node_id
\* are those sent to w = node_id * workers_per_node + k, through the local
\* session for node 0; the relay never addresses a worker outside
\* [0, workers_per_node); and what RecvReplyPacked(w) returns is what that
\* worker replied, in order.
C10_RoutesByNode ==
  ss_state = "live" =>
    /\ \A i \in RemoteNodes :
         /\ SelectSeq(Envelopes(i), IsTargetedEnvelope)
              = TargetedEnvelopes(s_calls, i)
         /\ rn[i].pc # "fatal"
         /\ rn[i].pc = "reply" =>
              /\ rn[i].local_worker_id \in 0..(ss_num_workers_per_node - 1)
              /\ sctl.op = "RecvReplyPacked"
              /\ rn[i].local_worker_id
                   = sctl.worker_id - i * ss_num_workers_per_node
         /\ net.up[i] # <<>> =>
              /\ sctl.op = "RecvReplyPacked"
              /\ sctl.worker_id \div ss_num_workers_per_node = i
    /\ \A n \in Nodes : \A k \in WorkersOf(n) :
         /\ SelectSeq(Delivered(n, k), IsTargetedCmd)
              = TargetedTo(s_calls, GlobalId(n, k))
         /\ Rets(GlobalId(n, k)) \o ReplyInFlight(n, k) \o RepliesAt(n, k)
              = w_replied[n][k]

C10_Witness ==
  /\ ss_state = "live"
  /\ ss_num_nodes = 3
  /\ ss_num_workers_per_node = 1
  /\ s_calls = <<Called("SendPacked", 2, CmdEcho(62)),
                 Called("RecvReplyPacked", 2, <<>>)>>
  /\ Rets(2) = <<CmdEcho(62)>>
  /\ Len(r_seen[2]) = 2
  /\ Envelopes(1) = <<>>
  /\ w_seen[3][1] = <<CmdInitWorkers(3, 2, ss_num_groups, 1), CmdEcho(62)>>

\* the metadata packet the relay of remote node i took off its channel, as
\* its constructor stored it
HandshakeRead(i) ==
  IF rn[i].pc = "connect" THEN <<>>
  ELSE << <<AnyInt(rn[i].num_nodes_), AnyInt(rn[i].num_workers_per_node_),
            AnyInt(rn[i].num_groups_), AnyInt(rn[i].node_id_)>> >>

\* every packet the controller has put on the channel of remote node i
ChannelPackets(i) == HandshakeRead(i) \o r_seen[i] \o RingPackets(net.down[i])

\* a forwarded-command envelope: an action, a target, then the command
IsEnvelope(p) ==
  /\ Len(p) >= 2
  /\ IntOf(p[1]) \in {DiscoSocketAction.kShutdown, DiscoSocketAction.kSend,
                      DiscoSocketAction.kReceive}
  /\ IntOf(p[2]) \in -1..(SocketGetNumWorkers(ss) - 1)

\* C11: in a socket session the first packet on the channel of every remote
\* node is the handshake <<num_nodes, workers_per_node, num_groups, node_id>>;
\* every later packet on that channel is a command envelope and none is the
\* handshake again; the node id in the handshake of the connection accepted
\* i-th, which is the one behind channel index i - 1, is i, so the ids are
\* 1 .. num_nodes - 1 and distinct, and the relay that stored node_id = i is
\* the one that reads that channel.
C11_HandshakeFirst ==
  ss_state = "live" =>
    /\ DOMAIN ss.remote_channels_ = 1..(ss_num_nodes - 1)
    /\ \A i \in RemoteNodes :
         /\ ss.remote_channels_[i] = TCPSocket(i)
         /\ ChannelPackets(i) # <<>>
         /\ Head(ChannelPackets(i))
              = <<AnyInt(ss_num_nodes), AnyInt(ss_num_workers_per_node),
                  AnyInt(ss_num_groups), AnyInt(i)>>
         /\ \A j \in 2..Len(ChannelPackets(i)) :
              /\ IsEnvelope(ChannelPackets(i)[j])
              /\ ChannelPackets(i)[j] # Head(ChannelPackets(i))
         /\ rn[i].pc # "connect" => rn[i].node_id_ = i

C11_Witness ==
  /\ ss_state = "live"
  /\ ss_num_nodes = 3
  /\ rn[1].pc = "loop" /\ rn[1].node_id_ = 1
  /\ rn[2].pc = "loop" /\ rn[2].node_id_ = 2
  /\ Len(r_seen[2]) = 2
  /\ RingPackets(net.down[1]) # <<>>

\* cmd is among the commands of a history
Among(cmd, h) == \E j \in 1..Len(h) : h[j] = cmd

\* C12: once Shutdown() of a socket session has run, the channel of every
\* remote node has carried a shutdown envelope, and when the destructor's
\* Shutdown() step is over every worker of node 0 has received the shutdown
\* command or has it on its request queue.
C12_ShutdownReachesAll ==
  /\ s_shutdowns >= 1 =>
       \A i \in RemoteNodes : Among(ShutdownEnvelope, ChannelPackets(i))
  /\ ss_state \in {"destroying", "destroyed"} =>
       \A k \in WorkersOf(1) :
         Among(CmdShutDown, w_seen[1][k] \o QueuedAt(1, k))

\* C12 as amended: once Shutdown() of a socket session has run, the channel
\* of every remote node has carried a shutdown envelope; the workers of node
\* 0 are sent nothing by Shutdown(), the destructor's call included: none of
\* them has the shutdown command until the destructor has gone on to destroy
\* the session's members, local_session_ among them, and from then on every
\* one of them has it.
C12_ShutdownFlow ==
  /\ s_shutdowns >= 1 =>
       \A i \in RemoteNodes : Among(ShutdownEnvelope, ChannelPackets(i))
  /\ ss_state \in {"live", "destroying"} =>
       \A k \in WorkersOf(1) :
         ~Among(CmdShutDown, w_seen[1][k] \o QueuedAt(1, k))
  /\ ss_state = "destroyed" =>
       \A k \in WorkersOf(1) :
         Among(CmdShutDown, w_seen[1][k] \o QueuedAt(1, k))

C12_Witness ==
  /\ ss_state = "destroyed"
  /\ ss_num_nodes = 2
  /\ s_shutdowns = 1
  /\ rn[1].pc = "done"
  /\ Among(ShutdownEnvelope, r_seen[1])
  /\ \A k \in WorkersOf(1) :
       /\ ~Among(CmdShutDown, w_seen[1][k])
       /\ Among(CmdShutDown, QueuedAt(1, k))

\* the command codes of the packets framed in a ring buffer, oldest first
RECURSIVE PacketCodes(_)
PacketCodes(ring) ==
  IF ring = <<>> THEN <<>>
  ELSE LET packet_nbytes == FromBytesU(SubSeq(ring, 1, SizeofInt64))
       IN  <<FromBytesU(SubSeq(ring, SizeofInt64 + 1, SizeofInt64 + SizeofRPCCode))>>
           \o PacketCodes(SubSeq(ring, SizeofInt64 + packet_nbytes + 1, Len(ring)))

\* how often cmd occurs in a history
Count(cmd, h) == Cardinality({ j \in 1..Len(h) : h[j] = cmd })

\* the raising commands worker k has finished executing
RaisesDone(k) ==
  Count(CmdRaise, h_seen[k])
    - (IF ts.workers_[k].thread = "exec" /\ ts.workers_[k].cmd = CmdRaise
         THEN 1 ELSE 0)

\* C13: in a threaded session, a worker that has executed a command that
\* raised has put one packet per such command on the reply side of its
\* channel, that packet is the exception packet (command code Exception,
\* then the message), and the worker's loop goes on: it stops only for a
\* shutdown command.
C13_ExceptionReply ==
  ts_state \in {"live", "joining"} =>
    \A k \in DOMAIN ts.workers_ :
      /\ Count(ExceptionReply, h_replied[k]) = RaisesDone(k)
      /\ ts.workers_[k].thread = "done" => Among(CmdShutDown, h_seen[k])
      /\ \A j \in 1..ReplyQueue(k).msg_cnt :
           RingPackets(ReplyQueue(k).ring_buffer)[j] = ExceptionReply =>
             PacketCodes(ReplyQueue(k).ring_buffer)[j] = kException

\* the commands worker k has finished executing
Done(k) ==
  Len(h_seen[k]) - (IF ts.workers_[k].thread = "exec" THEN 1 ELSE 0)

IsSync(cmd) == CmdAction(cmd) = DiscoAction.kSyncWorker

\* C14: in a threaded session, when worker k has processed a sync command,
\* the commands it received before it are exactly the commands that were
\* enqueued to it before that sync, in order, and each was executed to its
\* end before the next was received; so a store broadcast directly before
\* DebugGetFromRemote(r, w) is in worker w's register r when the call reads
\* it.  (That the barrier is for worker w's queue only shows in the witness:
\* another worker still has the store pending.)
C14_SyncBarrier ==
  /\ ts_state \in {"live", "check_failed", "joining"} =>
       \A k \in DOMAIN ts.workers_ : \A j \in 1..Done(k) :
         IsSync(h_seen[k][j]) =>
           SubSeq(h_seen[k], 1, j) = SubSeq(h_sent[k], 1, j)
  /\ ( /\ ctl_prev.op = "BroadcastPacked"
       /\ ctl_prev.args = CmdStore(0, 7)
       /\ ctl_last.op = "DebugGetFromRemote"
       /\ ctl_last.reg_id = 0 )
     => ctl_last.value = AnyInt(7)

C14_Witness ==
  /\ ts_state = "live"
  /\ GetNumWorkers(ts) = 2
  /\ ctl_prev.op = "BroadcastPacked"
  /\ ctl_prev.args = CmdStore(0, 7)
  /\ ctl_last.op = "DebugGetFromRemote"
  /\ ctl_last.worker_id = 1
  /\ ctl_last.value = AnyInt(7)
  /\ h_seen[2] = <<CmdStore(0, 7), CmdSyncWorker(1)>>
  /\ h_seen[1] = <<>>
  /\ RequestQueue(1).msg_cnt = 2

\* C15: in a socket session, a worker whose loop has ended has received the
\* shutdown command last, and the shutdown command is delivered to a worker
\* at most once and after every other command: nothing follows it among the
\* commands the worker has received, has on its request queue or has on the
\* way to its node.
C15_ShutdownLast ==
  ss_state # "new" =>
    \A n \in Nodes : \A k \in WorkersOf(n) :
      /\ ( k \in DOMAIN NodeSession(n).workers_
           /\ NodeSession(n).workers_[k].thread = "done" )
         => ( w_seen[n][k] # <<>>
              /\ w_seen[n][k][Len(w_seen[n][k])] = CmdShutDown )
      /\ \A j \in 1..Len(Delivered(n, k)) :
           Delivered(n, k)[j] = CmdShutDown => j = Len(Delivered(n, k))

\* a command or an envelope that is not of the session's construction
IsInitCmd(cmd) ==
  /\ CmdAction(cmd) = DiscoAction.kCallPacked
  /\ IntOf(cmd[3]) = Func.socket_session_init_workers

\* C16: in a socket session, once the controller has called SendPacked,
\* RecvReplyPacked, DebugGetFromRemote or DebugSetRegister with a worker id
\* outside [0, GetNumWorkers()), the call has failed, the channel of every
\* remote node has carried its handshake and nothing else, every worker has
\* been sent the initialisation command and nothing else, and every
\* register file is empty.
C16_BadWorkerIdFails ==
  ( s_calls # <<>> /\ s_calls[1].worker_id \notin SocketWorkerIds ) =>
    /\ sctl.op \in {"threw", "crashed"}
    /\ \A i \in RemoteNodes : Len(ChannelPackets(i)) = 1
    /\ \A n \in Nodes : \A k \in WorkersOf(n) :
         /\ \A j \in 1..Len(Delivered(n, k)) : IsInitCmd(Delivered(n, k)[j])
         /\ k \in DOMAIN NodeSession(n).workers_ =>
              NodeSession(n).workers_[k].worker.register_file = <<>>


(***************************************************************************)
(* The unknown type index of RecvPackedSeq.                                *)
(***************************************************************************)
\* the tags with a case of their own in the switch of RecvPackedSeq
HandledTags ==
  { TypeIndex.kTVMFFINone, TypeIndex.kTVMFFIBool, TypeIndex.kTVMFFIInt,
    TypeIndex.kTVMFFIFloat, TypeIndex.kTVMFFIOpaquePtr,
    TypeIndex.kTVMFFIDataType, TypeIndex.kTVMFFIDevice,
    TypeIndex.kTVMFFIFunction, TypeIndex.kTVMFFIModule,
    TypeIndex.kTVMFFIRawStr, TypeIndex.kTVMFFIByteArrayPtr,
    TypeIndex.kTVMFFIDLTensorPtr }

Unhandled(type_index) ==
  /\ type_index \notin HandledTags
  /\ type_index < TypeIndex.kTVMFFIStaticObjectBegin

\* argument k is the first of the packet whose tag is unhandled
FirstUnhandled(k) ==
  /\ k \in 1..Len(c_args)
  /\ Unhandled(c_args[k].type_index)
  /\ \A j \in 1..(k - 1) : ~Unhandled(c_args[j].type_index)

\* the stream position after the tag of argument k
AfterTag(k) ==
  Len(SendPackedSeq(SubSeq(c_args, 1, k - 1), FALSE).bytes) + SizeofInt32

\* C17: when RecvPackedSeq reads a type tag that is none of the handled tags
\* and is below the static-object range, it raises kUnknownTypeIndex and
\* decodes no further argument of that packet: the arguments before the tag
\* are returned, the tag is the last thing read from the stream.
C17_UnknownTypeIndex ==
  \A k \in 1..MaxArgs :
    (c_pc = "received" /\ FirstUnhandled(k)) =>
      /\ c_status = "kUnknownTypeIndex"
      /\ Len(c_out) = k
      /\ c_out[k] = [type_index |-> c_args[k].type_index]
      /\ \A j \in 1..(k - 1) : c_out[j] = c_args[j]
      /\ c_off = AfterTag(k)

C17_Witness ==
  /\ c_pc = "received"
  /\ Len(c_args) = 2
  /\ c_args[1].type_index = TypeIndex.kTVMFFIStaticObjectBegin - 1
  /\ c_args[2] = AnyInt(258)
  /\ c_status = "kUnknownTypeIndex"
  /\ Len(c_out) = 1
  /\ c_off < Len(c_wire)


(***************************************************************************)
(* Send does not wait for the consumer.                                    *)
(***************************************************************************)
\* C18: Send on an in-process channel always returns without waiting for the
\* worker: once Send has encoded its n-th packet it appends it and returns,
\* whether or not the consumer ever calls Recv and however many packets are
\* pending (BroadcastPacked is one such Send per worker channel).
C18_SendReturns ==
  \A n \in 1..MaxSends :
    (prod_pc = "commit" /\ Len(sent) = n)
      ~> (prod_pc = "idle" /\ Len(sent) = n)

C18_Witness ==
  /\ prod_pc = "idle"
  /\ Len(sent) = MaxSends
  /\ mq.msg_cnt = MaxSends
  /\ recvd = <<>>
  /\ cons_pc = "idle"
  /\ ~mq.dequeue_waiting


(***************************************************************************)
(* Cross-group point-to-point operations.                                  *)
(***************************************************************************)
GroupSize == g_num_workers \div g_num_groups
GroupOf(worker_id) == worker_id \div GroupSize
PositionInGroup(worker_id) == worker_id % GroupSize

\* what the claim says of one call: the error at the boundary group, else
\* the peer with the same position in the group next to the caller's
AtGroupBoundary(call, boundary, step) ==
  /\ call.result.error <=> GroupOf(call.worker_id) = boundary
  /\ ~call.result.error =>
       /\ call.result.peer \in 0..(g_num_workers - 1)
       /\ GroupOf(call.result.peer) = GroupOf(call.worker_id) + step
       /\ PositionInGroup(call.result.peer) = PositionInGroup(call.worker_id)

\* C19: SendToNextGroup raises an error when the calling worker is in the
\* last group and RecvFromPrevGroup raises an error when it is in the first
\* group; in every other group the peer is the worker with the same in-group
\* position in the adjacent group.
C19_GroupBoundary ==
  \A i \in 1..Len(g_calls) :
    /\ g_calls[i].op = "send" =>
         AtGroupBoundary(g_calls[i], g_num_groups - 1, 1)
    /\ g_calls[i].op = "recv" => AtGroupBoundary(g_calls[i], 0, -1)

C19_Witness ==
  /\ g_num_workers = 4 /\ g_num_groups = 2
  /\ Len(g_calls) = 3
  /\ g_calls[1] = GroupCall("send", 1, GroupPeer(3), 42)
  /\ g_calls[2] = GroupCall("recv", 3, GroupPeer(1), 42)
  /\ g_calls[3].op = "send" /\ g_calls[3].worker_id = 3
  /\ g_calls[3].result.error
  /\ g_inflight = <<>>


(***************************************************************************)
(* Who writes a worker's register file.                                    *)
(***************************************************************************)
\* this step changes the register file of worker k - 1
RegisterWritten(k) ==
  /\ k \in DOMAIN ts.workers_
  /\ k \in DOMAIN ts'.workers_
  /\ ts'.workers_[k].worker.register_file # ts.workers_[k].worker.register_file

\* the step is one of worker k - 1's own thread executing a command
OwnThreadStep(k) ==
  /\ ts.workers_[k].thread = "exec"
  /\ ctl' = ctl

\* the step is the controller thread returning from DebugSetRegister on
\* worker k - 1, which has answered the sync and waits in Recv on an empty
\* request queue
ControllerWriteAfterSync(k) ==
  /\ ctl.op = "DebugSetRegister"
  /\ ctl.worker_id = k - 1
  /\ ctl' = Idle
  /\ ts.workers_[k].thread = "recv"
  /\ ts.workers_[k].channel.controler_to_worker_.msg_cnt = 0

\* C20 as stated: a worker's register file is written only by that worker's
\* own execution thread; no session operation, DebugSetRegister of the
\* threaded session included, writes a register from the controller thread.
C20_OwnThreadOnly ==
  [][\A k \in 1..MaxWorkers : RegisterWritten(k) => OwnThreadStep(k)]_vars

\* C20 amended: a worker's register file is written by that worker's own
\* execution thread and, in the threaded session's DebugSetRegister, by the
\* controller thread, which writes the register of the addressed worker only
\* and only after that worker has answered SyncWorker and is waiting in Recv
\* with nothing pending.
C20_OwnThreadOrAfterSync ==
  [][\A k \in 1..MaxWorkers :
       RegisterWritten(k) => OwnThreadStep(k) \/ ControllerWriteAfterSync(k)]_vars

C20_Witness ==
  /\ ts_state = "live"
  /\ ts_num_workers = 2
  /\ ctl = Idle
  /\ ctl_last.op = "DebugSetRegister"
  /\ ctl_last.worker_id = 1
  /\ HasRegister(ts.workers_[2].worker, ctl_last.reg_id)
  /\ RegisterAt(ts.workers_[2].worker, ctl_last.reg_id) = ValueX
  /\ ts.workers_[1].worker.register_file = <<>>


(***************************************************************************)
(* The controller's access to a register file.                             *)
(***************************************************************************)
\* this step is the controller thread reading or writing a register of
\* worker k - 1 in DebugGetFromRemote or DebugSetRegister
DebugAccess(k) ==
  /\ ctl.op \in {"DebugGetFromRemote", "DebugSetRegister"}
  /\ ctl.worker_id = k - 1
  /\ ctl' = Idle
  /\ ts_state' = "live"

\* worker k - 1 has received and executed every command enqueued to it and
\* waits in Recv
WorkerDrained(k) ==
  /\ ts.workers_[k].thread = "recv"
  /\ h_seen[k] = h_sent[k]
  /\ RequestQueue(k).msg_cnt = 0

\* C21: in a threaded session the controller's read (DebugGetFromRemote) or
\* write (DebugSetRegister) of worker w's register file never overlaps with
\* worker w executing a command: at the moment of the access every command
\* enqueued to w before the debug call has completed and w is idle.
C21_AccessWhenIdle ==
  [][\A k \in 1..MaxWorkers : DebugAccess(k) => WorkerDrained(k)]_vars

C21_Witness ==
  /\ ts_state = "live"
  /\ ctl = Idle
  /\ GetNumWorkers(ts) = 2
  /\ ctl_prev.op = "BroadcastPacked"
  /\ ctl_prev.args = CmdStore(0, 7)
  /\ ctl_last.op = "DebugSetRegister"
  /\ ctl_last.worker_id = 0
  /\ h_seen[1] = <<CmdStore(0, 7), CmdStore(0, 7), CmdSyncWorker(0)>>
  /\ RegisterAt(ts.workers_[1].worker, 0) = ValueX
  /\ h_seen[2] = <<>>

(***************************************************************************)
(* One whole packet per Recv.                                              *)
(***************************************************************************)
\* the bytes Send i .. Send j put on the ring buffer, one frame after another
RECURSIVE Frames(_, _)
Frames(i, j) ==
  IF i > j THEN <<>>
  ELSE ReturnPackedSeq(sent[i]).bytes \o Frames(i + 1, j)

\* the number of Send calls whose packet has been committed
Committed == Len(sent) - Len(InFlightSend)

\* the number of Recv calls that have taken their packet off the ring buffer
Dequeued == Len(recvd) + Len(InFlightRecv)

\* the frame of a packet whose bytes after the length are body
Framed(body) == ToBytes(Len(body), SizeofInt64) \o body

\* C22: each Recv on an in-process queue removes exactly one whole framed
\* packet from the ring buffer (the 8-byte length, then exactly that many
\* bytes) while holding the mutex, and the decoder reads only from that
\* private copy: the ring buffer always holds whole committed packets only,
\* the copy is the packet of one Send from its first byte to its last, and
\* the decoder stops at the end of the copy.
C22_WholePacket ==
  /\ mq.ring_buffer = Frames(Dequeued + 1, Committed)
  /\ mq.msg_cnt = Committed - Dequeued
  /\ cons_pc = "take" => mutex_ = "consumer" /\ mq.msg_cnt > 0
  /\ cons_pc \in {"recycle", "decode"} =>
       Framed(mq.read_buffer) = Frames(Dequeued, Dequeued)
  /\ (cons_pc \in {"idle", "check", "blocked", "take"} /\ recvd # <<>>) =>
       /\ Framed(mq.read_buffer) = Frames(Dequeued, Dequeued)
       /\ mq.read_offset = Len(mq.read_buffer)

C22_Witness ==
  /\ cons_pc = "decode"
  /\ prod_pc = "locked"
  /\ Len(recvd) = 1
  /\ Len(sent) = 3
  /\ sent[2] = <<AnyRawStr(<<104, 105>>), AnyNone>>
  /\ Framed(mq.read_buffer) = ReturnPackedSeq(sent[2]).bytes
  /\ mq.ring_buffer = <<>>
  /\ mq.write_buffer # <<>>


(***************************************************************************)
(* The wake-up of a blocked consumer.                                      *)
(***************************************************************************)
\* C23: Recv on an in-process queue never dequeues while the pending-message
\* counter is 0, and a consumer blocked in Recv returns from it once a Send
\* has committed a packet, counting on no spurious wake-up: no
\* interleaving of CommitSendAndNotifyEnqueue with DequeueNextPacket loses
\* the wake-up.
C23_NoLostWakeup ==
  /\ [](cons_pc = "take" => mq.msg_cnt > 0)
  /\ (cons_pc = "blocked" /\ mq.msg_cnt > 0) ~> (cons_pc = "idle")

C23_Witness ==
  /\ cons_pc = "blocked"
  /\ mq.msg_cnt = 1
  /\ cv_notified
  /\ need_notify
  /\ prod_pc = "idle"
  /\ mutex_ = "free"
  /\ Len(recvd) = 1
  /\ Len(sent) = 2


(***************************************************************************)
(* The two directions of a channel.                                        *)
(***************************************************************************)
\* the initialisation command a session sends its workers when it is made
InitCmdOf(n) ==
  CmdInitWorkers(ss_num_nodes, n - 1, ss_num_groups, ss_num_workers_per_node)

\* the commands the relay of node n has sent to its worker k: those of the
\* envelopes it took off its channel that are for that worker
RelayedTo(n, k) ==
  LET For(e) == /\ IntOf(e[1]) = DiscoSocketAction.kSend
                /\ IntOf(e[2]) \in {-1, GlobalId(n, k)}
      sel == SelectSeq(r_seen[n - 1], For)
  IN  [j \in 1..Len(sel) |-> SubSeq(sel[j], 3, Len(sel[j]))]

\* every packet sent with Send on the thread channel of worker k of node n
SentOnChannel(n, k) ==
  IF n = 1 THEN <<InitCmdOf(1)>> \o CommandsTo(s_calls, GlobalId(1, k))
  ELSE IF rn[n - 1].pc = "connect" THEN <<>>
  ELSE <<InitCmdOf(n)>> \o RelayedTo(n, k)

\* the number of packets RecvReply has returned on the thread channel of
\* worker k of node n: to the controller on node 0, to the relay elsewhere
ReplyReturned(n, k) ==
  Len(w_replied[n][k]) - Len(RepliesAt(n, k))

TagRefusals == {"kInvalidTypeCodeObject", "kInvalidTypeCodeNDArray",
                "kUnknownTypeIndex"}

\* SendPackedSeq with client_mode = false takes the tag of this argument
SendAcceptsTag(arg) == SendArg(arg, FALSE).status \notin TagRefusals

\* RecvPackedSeq takes this tag: the tag on the stream, then a payload of
\* zero bytes
ZeroPayload == [j \in 1..64 |-> 0]
RecvAcceptsTag(type_index) ==
  RecvArg(ToBytes(type_index, SizeofInt32) \o ZeroPayload, 0).status
    = "kSuccess"

\* the stream position after the encoding of the first i arguments
EncodedUpTo(i) == Len(SendPackedSeq(SubSeq(c_args, 1, i), FALSE).bytes)

\* decoding i arguments of the wire ends where argument i + 1 starts
PositionsAgree(i) ==
  /\ RecvArgs(c_wire, SizeofInt32, i).status = "kSuccess"
  /\ RecvArgs(c_wire, SizeofInt32, i).off = EncodedUpTo(i)

\* C25 as stated: for every tag, SendPackedSeq with client_mode = false
\* accepts the tag exactly when RecvPackedSeq accepts it, and the bytes
\* written after a tag are the bytes read after it, so that decoding argument
\* i ends at the start of argument i + 1.
C25_SameBranches ==
  /\ c_pc # "start" =>
       \A i \in 1..Len(c_args) :
         SendAcceptsTag(c_args[i]) <=> RecvAcceptsTag(c_args[i].type_index)
  /\ c_pc = "received" => \A i \in 1..Len(c_args) : PositionsAgree(i)

\* C25 amended: the two switches agree on the tags both sides take.  With
\* client_mode = false SendPackedSeq refuses exactly the tags Function,
\* Module and NDArray, which RecvPackedSeq decodes; RecvPackedSeq refuses
\* exactly the tags below the static-object range that have no case, which
\* SendPackedSeq hands to the object codec; for a sequence of tags that both
\* take, the bytes written after each tag are the bytes read after it, and
\* decoding argument i ends at the start of argument i + 1.
C25_BranchesWhereBothAccept ==
  /\ c_pc # "start" =>
       \A i \in 1..Len(c_args) :
         /\ SendAcceptsTag(c_args[i]) <=>
              c_args[i].type_index \notin
                {TypeIndex.kTVMFFIFunction, TypeIndex.kTVMFFIModule,
                 TypeIndex.kTVMFFINDArray}
         /\ RecvAcceptsTag(c_args[i].type_index) <=>
              ~Unhandled(c_args[i].type_index)
  /\ (c_pc = "received"
        /\ \A i \in 1..Len(c_args) : ~Unhandled(c_args[i].type_index)) =>
       /\ c_status = "kSuccess"
       /\ Len(c_out) = Len(c_args)
       /\ c_off = Len(c_wire)
       /\ \A i \in 1..Len(c_args) :
            /\ c_out[i].type_index = c_args[i].type_index
            /\ PositionsAgree(i)

C25_Witness ==
  /\ c_pc = "received"
  /\ Len(c_args) = 2
  /\ c_args[1].type_index = TypeIndex.kTVMFFIStaticObjectBegin + 1
  /\ c_args[2].type_index = TypeIndex.kTVMFFIDLTensorPtr
  /\ c_args[2].tensor.ndim = 2
  /\ c_out = c_args
  /\ c_off = Len(c_wire)


\* C26: in every packet written by ReturnPackedSeq, ReturnException and
\* ReturnVoid the leading 64-bit length is the number of bytes that follow
\* it (command code and payload), and the size the counting pass
\* PackedSeqGetNumBytes computes for a sequence is the number of bytes the
\* real SendPackedSeq pass writes for it; the two passes stop with the same
\* status when one of them refuses an argument.
PacketWritten ==
  c_pc \in {"returned", "exception", "void",
            "returned_read", "exception_read", "void_read"}

LengthPrefix(packet) == FromBytesU(Slice(packet, 0, SizeofInt64))

C26_LengthIsExact ==
  /\ PacketWritten =>
       /\ Len(c_wire) >= HeaderBytes
       /\ LengthPrefix(c_wire) = Len(c_wire) - SizeofInt64
  /\ c_pc # "start" =>
       \A client_mode \in BOOLEAN :
         /\ PackedSeqGetNumBytes(c_args, client_mode).status
              = SendPackedSeq(c_args, client_mode).status
         /\ SendPackedSeq(c_args, client_mode).status = "kSuccess" =>
              PackedSeqGetNumBytes(c_args, client_mode).num_bytes
                = Len(SendPackedSeq(c_args, client_mode).bytes)

C26_Witness ==
  /\ c_pc = "returned"
  /\ c_args = <<[type_index |-> TypeIndex.kTVMFFIDLTensorPtr,
                 tensor |-> Tensor(4096, 2, <<3, -1>>, NoStrides)],
                [type_index |-> TypeIndex.kTVMFFIDataType,
                 v_dtype |-> Float32]>>
  /\ Len(c_wire) = 80
  /\ LengthPrefix(c_wire) = 72


\* C27: the special-cased packets are ordinary packets.  What ReturnVoid
\* writes is byte for byte what ReturnPackedSeq writes for the sequence
\* [none], and its payload decodes through RecvPackedSeq as [none]; the
\* payload ReturnException(msg) writes is what SendPackedSeq writes for
\* [raw string msg] and decodes as that sequence, the command code being
\* kException where ReturnPackedSeq and ReturnVoid write kReturn.  The
\* decoder ends at the end of the packet.
CodeOf(packet) == FromBytesS(Slice(packet, SizeofInt64, SizeofRPCCode))

PayloadOf(packet) == SubSeq(packet, HeaderBytes + 1, Len(packet))

MessageOf(msg) == SubSeq(msg, 1, StrLength(msg))

C27_SpecialPacketsAreOrdinary ==
  /\ c_pc \in {"void", "void_read"} =>
       /\ c_wire = ReturnPackedSeq(<<AnyNone>>).bytes
       /\ CodeOf(c_wire) = kReturn
  /\ c_pc = "void_read" =>
       /\ c_status = "kSuccess"
       /\ c_out = <<AnyNone>>
       /\ c_off = Len(c_wire)
  /\ c_pc \in {"exception", "exception_read"} =>
       /\ CodeOf(c_wire) = kException
       /\ PayloadOf(c_wire)
            = SendPackedSeq(<<AnyRawStr(MessageOf(c_args[1].v_c_str))>>,
                            FALSE).bytes
  /\ c_pc = "exception_read" =>
       /\ c_status = "kSuccess"
       /\ c_out = <<AnyRawStr(MessageOf(c_args[1].v_c_str))>>
       /\ c_off = Len(c_wire)
  /\ c_pc \in {"returned", "returned_read"} => CodeOf(c_wire) = kReturn

C27_Witness ==
  /\ c_pc = "exception_read"
  /\ c_args = <<AnyRawStr(<<104, 105>>)>>
  /\ CodeOf(c_wire) = kException
  /\ c_out = <<AnyRawStr(<<104, 105>>)>>
  /\ c_off = Len(c_wire)


\* C28: every Recv on an in-process queue recycles the arena before it
\* decodes, so the arena holds exactly what the last Recv returned from that
\* Recv's return until the next Recv, having taken its packet, calls
\* RecycleAll; between that call and the end of the decoding the arena holds
\* nothing of the earlier Recv, and the arena changes at no other time.
LastReturned == IF recvd = <<>> THEN <<>> ELSE recvd[Len(recvd)]

PayloadsValid == mq.arena = LastReturned

ArenaTouched == mq'.arena # mq.arena

C28_RecycledAtEachRecv ==
  /\ [](cons_pc = "decode" => mq.arena = <<>>)
  /\ [](cons_pc \in {"idle", "check", "blocked", "take", "recycle"} =>
          PayloadsValid)
  /\ [][ArenaTouched => cons_pc \in {"recycle", "decode"}]_vars
  /\ [][cons_pc = "recycle" /\ cons_pc' = "decode" => mq'.arena = <<>>]_vars

C28_Witness ==
  /\ cons_pc = "decode"
  /\ Len(recvd) = 1
  /\ recvd[1] = <<AnyRawStr(<<104, 105>>), AnyNone>>
  /\ Len(sent) = 2
  /\ mq.arena = <<>>
  /\ mq.read_offset = SizeofRPCCode


\* C29: the mutex of the in-process queue is held only inside the two lock
\* scopes, where a packet is appended to or removed from the ring buffer:
\* the producer holds it exactly between taking it and the end of the append,
\* the consumer exactly while it tests and takes a packet; the ring buffer
\* and the message count change only in a step that ends a lock scope.
\* Encoding into write_buffer_ and decoding from read_buffer_ are done with
\* the mutex not held by the thread that does it, and whenever the consumer
\* is about to decode and the producer is about to encode, both can.
Encoding == prod_pc = "idle" /\ prod_pc' = "commit"

Decoding == cons_pc \in {"recycle", "decode"} /\ cons_pc' # cons_pc

RingTouched ==
  mq'.ring_buffer # mq.ring_buffer \/ mq'.msg_cnt # mq.msg_cnt

LockHeldAsScoped ==
  /\ mutex_ = "producer" <=> prod_pc = "locked"
  /\ mutex_ = "consumer" <=> cons_pc \in {"check", "take"}
  /\ cons_pc = "decode" /\ prod_pc = "idle" /\ Len(sent) < MaxSends =>
       /\ ENABLED Recv_Decode
       /\ ENABLED Send_Encode(<<AnyInt(258)>>)

C29_LockOnlyAroundRing ==
  /\ []LockHeldAsScoped
  /\ [][Encoding => mutex_ # "producer" /\ mutex_' = mutex_]_vars
  /\ [][Decoding => mutex_ # "consumer" /\ mutex_' = mutex_]_vars
  /\ [][RingTouched => mutex_ \in {"producer", "consumer"}
                       /\ mutex_' = "free"]_vars

C29_Witness ==
  /\ cons_pc = "decode"
  /\ prod_pc = "commit"
  /\ mutex_ = "free"
  /\ Len(sent) = 2
  /\ recvd = <<>>
  /\ mq.write_buffer = ReturnPackedSeq(sent[2]).bytes
  /\ mq.read_offset = SizeofRPCCode


\* C30: the relay's MainLoop returns only in the step in which it receives
\* a shutdown action, and in that step it shuts its local session down
\* before it returns: while the loop runs no local worker has been sent the
\* shutdown command, once it has returned every local worker has.  A send
\* action leaves the relay waiting for the next forwarded command, a receive
\* action does so once the local reply has been written back, and the loop
\* ends in no other way.
ShutdownSentTo(n, k) ==
  \E j \in 1..Len(w_seen[n][k] \o QueuedAt(n, k)) :
     (w_seen[n][k] \o QueuedAt(n, k))[j] = CmdShutDown

ActionReceived(i) == IntOf(r_seen'[i][Len(r_seen'[i])][1])

MainLoopReceived(i) == rn[i].pc = "loop" /\ Len(r_seen'[i]) > Len(r_seen[i])

MainLoopState(i) ==
  /\ rn[i].pc # "fatal"
  /\ rn[i].pc \in {"loop", "reply"} =>
       \A k \in WorkersOf(i + 1) : ~ShutdownSentTo(i + 1, k)
  /\ rn[i].pc = "done" =>
       /\ r_seen[i] # <<>>
       /\ r_seen[i][Len(r_seen[i])] = ShutdownEnvelope
       /\ \A k \in WorkersOf(i + 1) : ShutdownSentTo(i + 1, k)

MainLoopStep(i) ==
  /\ rn[i].pc # "done" /\ rn'[i].pc = "done" =>
       /\ MainLoopReceived(i)
       /\ ActionReceived(i) = DiscoSocketAction.kShutdown
       /\ rn'[i].local_session_ = SessionShutdown(rn[i].local_session_)
  /\ MainLoopReceived(i) =>
       /\ ActionReceived(i) = DiscoSocketAction.kSend => rn'[i].pc = "loop"
       /\ ActionReceived(i) = DiscoSocketAction.kReceive => rn'[i].pc = "reply"
       /\ ActionReceived(i) = DiscoSocketAction.kShutdown => rn'[i].pc = "done"
  /\ rn[i].pc = "loop" /\ rn'[i].pc # "loop" => MainLoopReceived(i)
  /\ rn[i].pc = "reply" /\ rn'[i].pc # "reply" =>
       /\ rn'[i].pc = "loop"
       /\ Len(net'.up[i]) > Len(net.up[i])

C30_ReturnsOnShutdownOnly ==
  /\ [](\A i \in DOMAIN rn : MainLoopState(i))
  /\ [][\A i \in DOMAIN rn : MainLoopStep(i)]_vars

C30_Witness ==
  /\ ss_num_nodes = 2
  /\ DOMAIN rn = {1}
  /\ rn[1].pc = "done"
  /\ Len(r_seen[1]) = 3
  /\ IntOf(r_seen[1][1][1]) = DiscoSocketAction.kSend
  /\ IntOf(r_seen[1][2][1]) = DiscoSocketAction.kReceive
  /\ r_seen[1][3] = ShutdownEnvelope
  /\ Len(s_rets) = 1
  /\ \A k \in WorkersOf(2) : ShutdownSentTo(2, k)


\* C31: the relay writes to its socket only when it completes a receive
\* action, and then exactly one packet: the reply at the head of the
\* addressed local worker's reply queue, as it is.  The step in which it
\* takes an envelope off the channel (send, receive or shutdown) writes
\* nothing.  Hence the replies of a node that the controller has read or
\* can read are as many as the receive actions the relay has completed, and
\* the receive actions sent to a node are as many as the RecvReplyPacked
\* calls for its workers.
IsReceive(e) == IntOf(e[1]) = DiscoSocketAction.kReceive

OnNode(c, i) == c.worker_id \div ss_num_workers_per_node = i

ReceivesCompleted(i) ==
  Len(SelectSeq(r_seen[i], IsReceive)) - (IF rn[i].pc = "reply" THEN 1 ELSE 0)

RepliesReadFrom(i) == Len(SelectSeq(s_rets, LAMBDA c : OnNode(c, i)))

ReceiveCallsFor(i) ==
  Len(SelectSeq(s_calls,
                LAMBDA c : c.op = "RecvReplyPacked" /\ OnNode(c, i)))

RelayWrote(i) == net'.up[i] # net.up[i] /\ ~(rn[i].pc = "connect")

RepliesCounted(i) ==
  /\ ReceivesCompleted(i) >= 0
  /\ ss_state = "live" /\ s_shutdowns = 0 =>
       /\ Len(RingPackets(net.up[i])) + RepliesReadFrom(i)
            = ReceivesCompleted(i)
       /\ Len(SelectSeq(Envelopes(i), IsReceive)) = ReceiveCallsFor(i)

RelayWritesOnReceiveOnly(i) ==
  /\ MainLoopReceived(i) => net'.up[i] = net.up[i]
  /\ rn[i].pc = "reply" /\ rn'[i].pc # "reply" =>
       net'.up[i]
         = net.up[i]
           \o ReturnPackedSeq(
                Head(RepliesAt(i + 1, rn[i].local_worker_id + 1))).bytes
  /\ Len(net'.up[i]) > Len(net.up[i]) => rn[i].pc = "reply"

C31_OneReplyPerReceive ==
  /\ [](\A i \in DOMAIN rn : RepliesCounted(i))
  /\ [][\A i \in DOMAIN rn : RelayWritesOnReceiveOnly(i)]_vars

C31_Witness ==
  /\ ss_num_nodes = 2
  /\ ss_num_workers_per_node = 1
  /\ DOMAIN rn = {1}
  /\ rn[1].pc = "loop"
  /\ r_seen[1] = <<SendEnvelope(1, CmdEcho(61)), ReceiveEnvelope(1)>>
  /\ RingPackets(net.up[1]) = <<CmdEcho(61)>>
  /\ sctl.op = "RecvReplyPacked"


\* C32: a forwarded command whose action code is none of kShutdown, kSend,
\* kReceive is fatal to the relay.  The step that takes it off the channel
\* leaves the local session and the socket as they were and ends the loop;
\* from then on the relay takes nothing more off its channel, and what its
\* local workers have received or have pending is what the envelopes before
\* the fatal one sent them.
KnownActions ==
  {DiscoSocketAction.kShutdown, DiscoSocketAction.kSend,
   DiscoSocketAction.kReceive}

RelayFailed(i) == rn[i].pc = "fatal" /\ r_seen[i] # <<>>

FatalStep(i) ==
  /\ MainLoopReceived(i) /\ ActionReceived(i) \notin KnownActions =>
       /\ rn'[i].pc = "fatal"
       /\ rn'[i].local_session_ = rn[i].local_session_
       /\ net'.up[i] = net.up[i]
  /\ rn[i].pc = "fatal" =>
       /\ rn'[i].pc = "fatal"
       /\ r_seen'[i] = r_seen[i]
       /\ net'.up[i] = net.up[i]

FatalState(i) ==
  RelayFailed(i) =>
    /\ IntOf(r_seen[i][Len(r_seen[i])][1]) \notin KnownActions
    /\ \A k \in WorkersOf(i + 1) :
         w_seen[i + 1][k] \o QueuedAt(i + 1, k)
           = <<InitCmdOf(i + 1)>> \o RelayedTo(i + 1, k)

C32_UnknownActionIsFatal ==
  /\ [](\A i \in DOMAIN rn : FatalState(i))
  /\ [][\A i \in DOMAIN rn : FatalStep(i)]_vars

C32_Witness ==
  /\ DOMAIN rn = {1}
  /\ rn[1].pc = "fatal"
  /\ Len(r_seen[1]) = 1
  /\ IntOf(r_seen[1][1][1]) = DiscoSocketAction.kReceive + 1
  /\ RingPackets(net.down[1]) = <<BroadcastEnvelope(CmdEcho(5))>>
  /\ \A k \in WorkersOf(2) : w_seen[2][k] = <<InitCmdOf(2)>>


\* C33: in a socket session every worker, on node 0 or behind a relay,
\* observes the commands addressed to it, broadcasts and targeted sends
\* together, in the order in which the controller issued them: what it has
\* received is always a prefix of them (after the init command its own
\* session gave it), and what it has received or has still to receive, on
\* its request queue or in envelopes on the way to its node, is all of them
\* in order.  The relay takes the envelopes of its channel in arrival order.
Connected(n) == n = 1 \/ rn[n - 1].pc # "connect"

IssuedTo(n, k) ==
  (IF Connected(n) THEN <<InitCmdOf(n)>> ELSE <<>>)
    \o CommandsTo(s_calls, GlobalId(n, k))

C33_IssueOrder ==
  ss_state = "live" =>
    /\ \A n \in Nodes : \A k \in WorkersOf(n) :
         /\ Delivered(n, k) = IssuedTo(n, k)
         /\ IsPrefix(w_seen[n][k], IssuedTo(n, k))
    /\ \A i \in RemoteNodes :
         IsPrefix(r_seen[i], Envelopes(i))

C33_Witness ==
  /\ ss_state = "live"
  /\ ss_num_nodes = 2
  /\ ss_num_workers_per_node = 1
  /\ s_calls = <<Called("BroadcastPacked", -1, CmdEcho(5)),
                 Called("SendPacked", 1, CmdEcho(61))>>
  /\ w_seen[2][1] = <<InitCmdOf(2), CmdEcho(5), CmdEcho(61)>>
  /\ w_seen[1][1] = <<InitCmdOf(1), CmdEcho(5)>>
  /\ Len(r_seen[1]) = 2


\* C34: once runtime.disco.socket_session_init_workers has run on a worker
\* (it is the first command the worker receives, and it runs once), the
\* worker's id is its local id plus node_id * workers_per_node, its
\* num_workers is num_nodes * workers_per_node, its num_groups is the
\* session's, and its id divided by workers_per_node is its node's id; once
\* it has run on every worker of every node the ids are pairwise distinct
\* and are exactly 0 .. num_nodes * workers_per_node - 1.  Before it has run
\* a worker still has its local id and its local session's size.
WorkerOf(n, k) == NodeSession(n).workers_[k].worker

Initialized(n, k) == w_seen[n][k] # <<>>

AllInitialized == \A n \in Nodes : \A k \in WorkersOf(n) : Initialized(n, k)

InitRuns(n, k) ==
  Cardinality({ j \in 1..Len(w_seen[n][k]) : w_seen[n][k][j] = InitCmdOf(n) })

C34_GlobalIds ==
  ss_state = "live" =>
    /\ \A n \in Nodes : \A k \in WorkersOf(n) :
         /\ Initialized(n, k) =>
              /\ InitRuns(n, k) = 1
              /\ WorkerOf(n, k).worker_id
                   = (k - 1) + (n - 1) * ss_num_workers_per_node
              /\ WorkerOf(n, k).num_workers
                   = ss_num_nodes * ss_num_workers_per_node
              /\ WorkerOf(n, k).num_groups = ss_num_groups
              /\ WorkerOf(n, k).worker_id \div ss_num_workers_per_node = n - 1
         /\ (Connected(n) /\ ~Initialized(n, k)) =>
              /\ WorkerOf(n, k).worker_id = k - 1
              /\ WorkerOf(n, k).num_workers = ss_num_workers_per_node
    /\ AllInitialized =>
         /\ { WorkerOf(n, k).worker_id : n \in Nodes, k \in 1..ss_num_workers_per_node }
              = 0..(ss_num_nodes * ss_num_workers_per_node - 1)
         /\ \A n1, n2 \in Nodes : \A k1, k2 \in 1..ss_num_workers_per_node :
              WorkerOf(n1, k1).worker_id = WorkerOf(n2, k2).worker_id
                => (n1 = n2 /\ k1 = k2)

C34_Witness ==
  /\ ss_state = "live"
  /\ ss_num_nodes = 2
  /\ ss_num_workers_per_node = 2
  /\ ss_num_groups = 2
  /\ AllInitialized
  /\ WorkerOf(2, 2).worker_id = 3
  /\ WorkerOf(2, 1).worker_id = 2
  /\ WorkerOf(1, 2).worker_id = 1
  /\ WorkerOf(2, 2).num_workers = 4


\* C35: whenever the mutex of an in-process queue is not held, msg_cnt_ is
\* the number of complete framed packets in the ring buffer (a frame is an
\* 8-byte length followed by exactly that many bytes), the ring buffer holds
\* whole frames only, with nothing left over, and msg_cnt_ is not negative.
\* The frames are counted on the bytes of the ring buffer alone.
RECURSIVE WholeFrames(_)
WholeFrames(ring) ==
  IF ring = <<>> THEN 0
  ELSE IF Len(ring) < SizeofInt64 THEN -1
  ELSE IF Len(ring) < SizeofInt64 + FromBytesU(SubSeq(ring, 1, SizeofInt64))
    THEN -1
  ELSE LET rest == WholeFrames(SubSeq(ring,
                     SizeofInt64 + FromBytesU(SubSeq(ring, 1, SizeofInt64)) + 1,
                     Len(ring)))
       IN  IF rest < 0 THEN -1 ELSE 1 + rest

C35_CountMatchesFrames ==
  mutex_ = "free" =>
    /\ mq.msg_cnt >= 0
    /\ WholeFrames(mq.ring_buffer) >= 0
    /\ mq.msg_cnt = WholeFrames(mq.ring_buffer)

C35_Witness ==
  /\ mutex_ = "free"
  /\ mq.msg_cnt = 2
  /\ WholeFrames(mq.ring_buffer) = 2
  /\ Len(sent) = 3
  /\ Len(recvd) = 1
  /\ prod_pc = "idle"
  /\ cons_pc = "idle"


\* C36: for every packet produced by Send on an in-process queue the matching
\* Recv consumes exactly the packet's bytes: read_offset_ never exceeds
\* read_buffer_.size(), neither between the calls nor after any argument of
\* the decode, and at the step in which Recv returns read_offset_ equals
\* read_buffer_.size(), the read buffer being the packet of the matching Send
\* without its length; the producer's write buffer is empty whenever no Send
\* is in progress.
DecodeNumArgs ==
  FromBytesS(Slice(mq.read_buffer, mq.read_offset, SizeofInt32))

\* read_offset_ after the first n arguments of the decode in progress
DecodeOffsetAfter(n) ==
  RecvArgs(mq.read_buffer, mq.read_offset + SizeofInt32, n).off

RecvReturns == cons_pc = "decode" /\ cons_pc' = "idle"

C36_OffsetsWithinPacket ==
  /\ mq.read_offset <= Len(mq.read_buffer)
  /\ cons_pc = "decode" =>
       /\ mq.read_offset = SizeofRPCCode
       /\ mq.read_offset + SizeofInt32 <= Len(mq.read_buffer)
       /\ \A n \in 0..DecodeNumArgs :
            DecodeOffsetAfter(n) <= Len(mq.read_buffer)
       /\ DecodeOffsetAfter(DecodeNumArgs) = Len(mq.read_buffer)
  /\ prod_pc = "idle" => mq.write_buffer = <<>>

C36_ReturnsAtEndOfPacket ==
  [][RecvReturns =>
       /\ mq'.read_offset = Len(mq'.read_buffer)
       /\ mq'.read_buffer = mq.read_buffer
       /\ Len(recvd') <= Len(sent)
       /\ Len(mq.read_buffer) + SizeofInt64 =
            Len(ReturnPackedSeq(sent[Len(recvd')]).bytes)]_vars

C36_ConsumesExactly ==
  []C36_OffsetsWithinPacket /\ C36_ReturnsAtEndOfPacket

C36_Witness ==
  /\ cons_pc = "idle"
  /\ prod_pc = "idle"
  /\ Len(recvd) = 2
  /\ Len(sent) = 2
  /\ recvd[2] = <<AnyRawStr(<<104, 105>>), AnyNone>>
  /\ mq.read_offset = Len(mq.read_buffer)
  /\ mq.read_offset > SizeofRPCCode + SizeofInt32
  /\ mq.write_buffer = <<>>


\* C37: when the controller calls RecvReplyPacked(w) for a remote worker w
\* that has no reply pending and no reply-producing command outstanding, the
\* relay of w's node stays inside its local receive for good: it dispatches
\* no later forwarded command, a shutdown included, it writes no reply, and
\* the controller's call does not return.
ReplyProducing(cmd) ==
  \/ CmdAction(cmd) \in {DiscoAction.kSyncWorker,
                         DiscoAction.kDebugGetFromRemote,
                         DiscoAction.kDebugSetRegister}
  \/ /\ CmdAction(cmd) = DiscoAction.kCallPacked
     /\ IntOf(cmd[3]) \in {Func.echo, Func.raise}

\* the worker thread has no reply on its reply queue and no command on its
\* request queue that will produce one
NothingToReply(wt) ==
  /\ wt.channel.worker_to_controler_.msg_cnt = 0
  /\ \A j \in 1..Len(RingPackets(wt.channel.controler_to_worker_.ring_buffer)) :
       ~ReplyProducing(
          RingPackets(wt.channel.controler_to_worker_.ring_buffer)[j])

\* the relay is inside local_session_->RecvReplyPacked(local_worker_id) and
\* that worker has nothing to reply
BlockedInLocalReceive(remote) ==
  /\ remote.pc = "reply"
  /\ NothingToReply(remote.local_session_.workers_[remote.local_worker_id + 1])

\* the controller is inside RecvReplyPacked for a worker of remote node i
WaitingOnNode(i) ==
  /\ sctl.op = "RecvReplyPacked"
  /\ NodeIdOf(ss, sctl.worker_id) = i

StaysBlocked(i) ==
  BlockedInLocalReceive(rn[i]) =>
    /\ BlockedInLocalReceive(rn'[i])
    /\ rn'[i].local_worker_id = rn[i].local_worker_id
    /\ r_seen'[i] = r_seen[i]
    /\ Len(net'.down[i]) >= Len(net.down[i])
    /\ net.up[i] = <<>> => net'.up[i] = <<>>
    /\ (WaitingOnNode(i) /\ net.up[i] = <<>>) =>
         /\ sctl' = sctl
         /\ s_rets' = s_rets

C37_BlockedForGood ==
  [][\A i \in DOMAIN rn : StaysBlocked(i)]_vars

C37_Witness ==
  /\ DOMAIN rn = {1}
  /\ ss_num_workers_per_node = 1
  /\ BlockedInLocalReceive(rn[1])
  /\ WaitingOnNode(1)
  /\ s_calls = <<Called("RecvReplyPacked", 1, <<>>),
                 Called("Forward", 1, ShutdownEnvelope)>>
  /\ r_seen[1] = <<ReceiveEnvelope(1)>>
  /\ PendingEnvelopes(1) = <<ShutdownEnvelope>>
  /\ w_seen # <<>>
  /\ net.up[1] = <<>>
  /\ s_rets = <<>>


\* C38 (as stated): each DebugGetFromRemote or DebugSetRegister on a remote
\* worker puts one send envelope and one receive envelope on the node's
\* channel and reads one reply, so that when the call returns no unread reply
\* of that worker remains, neither on the connection nor on the worker's
\* reply queue nor still to be produced, and the next RecvReplyPacked cannot
\* return a stale debug reply.
DebugOps == {"DebugGetFromRemote", "DebugSetRegister"}

\* the envelopes one call of the controller puts on a remote channel
EnvelopesOf(c) ==
  CASE c.op = "SendPacked" -> <<SendEnvelope(c.worker_id, c.args)>>
    [] c.op = "RecvReplyPacked" -> <<ReceiveEnvelope(c.worker_id)>>
    [] c.op = "DebugGetFromRemote" ->
         <<DebugGetEnvelope(IntOf(c.args[1]), c.worker_id),
           ReceiveEnvelope(c.worker_id)>>
    [] c.op = "DebugSetRegister" ->
         <<DebugSetEnvelope(IntOf(c.args[1]), c.worker_id, c.args[2]),
           ReceiveEnvelope(c.worker_id)>>
    [] OTHER -> <<>>

\* the envelopes the calls of a history put on the channel of remote node i
RECURSIVE IssuedOn(_, _)
IssuedOn(i, calls) ==
  IF calls = <<>> THEN <<>>
  ELSE (IF NodeIdOf(ss, Head(calls).worker_id) = i
          THEN EnvelopesOf(Head(calls)) ELSE <<>>)
       \o IssuedOn(i, Tail(calls))

\* the calls of a history that make worker w produce a reply, and the
\* returns that read one of w's replies
ProducedFor(calls, w) ==
  Len(SelectSeq(calls, LAMBDA c : c.worker_id = w /\ c.op # "RecvReplyPacked"))
ReadFor(rets, w) ==
  Len(SelectSeq(rets, LAMBDA c : c.worker_id = w))

\* the replies of worker w nobody has read: on the connection of its node,
\* on its reply queue, or still to be produced by a queued command
UnreadFor(w) ==
  Len(RingPackets(net.up[NodeIdOf(ss, w)]))
  + Len(RepliesAt(NodeIdOf(ss, w) + 1, (w % ss_num_workers_per_node) + 1))
  + Len(SelectSeq(QueuedAt(NodeIdOf(ss, w) + 1,
                           (w % ss_num_workers_per_node) + 1),
                  ReplyProducing))

\* a debug call on worker w has just ended and no other call was made since
DebugCallEnded(w) ==
  /\ ss_state = "live"
  /\ sctl = Idle
  /\ s_calls # <<>>
  /\ s_calls[Len(s_calls)].op \in DebugOps
  /\ s_calls[Len(s_calls)].worker_id = w
DebugCallReturned(w) ==
  /\ DebugCallEnded(w)
  /\ s_rets[Len(s_rets)].op = s_calls[Len(s_calls)].op

C38_NoUnreadReplyAfterReturn ==
  \A w \in 0..(MaxSocketWorkers - 1) :
    DebugCallReturned(w) => UnreadFor(w) = 0

\* C38 (amended): each DebugGetFromRemote or DebugSetRegister on a remote
\* worker puts exactly one send envelope followed by one receive envelope on
\* that node's channel and reads exactly one reply, so the call leaves as
\* many unread replies of that worker as it found.  When the worker had no
\* unread reply at the call, the call returns its own reply, none remains
\* and the next RecvReplyPacked cannot return a stale debug reply; when it
\* had one, the call reads the oldest of them and its own reply stays unread.
NothingUnreadAtCall(w) ==
  ProducedFor(SubSeq(s_calls, 1, Len(s_calls) - 1), w)
    = ReadFor(SubSeq(s_rets, 1, Len(s_rets) - 1), w)

C38_OneReplyPerDebugCall ==
  ss_state = "live" =>
    /\ \A i \in DOMAIN rn : Envelopes(i) = IssuedOn(i, s_calls)
    /\ \A i \in DOMAIN rn :
         sctl = Idle =>
           /\ net.up[i] = <<>>
           /\ Len(SelectSeq(Envelopes(i), IsReceive))
                = Len(SelectSeq(s_rets, LAMBDA c : OnNode(c, i)))
    /\ \A w \in 0..(MaxSocketWorkers - 1) :
         DebugCallEnded(w) =>
           /\ UnreadFor(w) = ProducedFor(s_calls, w) - ReadFor(s_rets, w)
           /\ NothingUnreadAtCall(w) =>
                /\ DebugCallReturned(w)
                /\ UnreadFor(w) = 0
           /\ ~NothingUnreadAtCall(w) => UnreadFor(w) > 0

C38_Witness ==
  /\ ss_num_nodes = 2
  /\ ss_num_workers_per_node = 1
  /\ DebugCallReturned(1)
  /\ NothingUnreadAtCall(1)
  /\ s_calls = <<Called("DebugSetRegister", 1, <<AnyInt(0), ValueX>>),
                 Called("DebugGetFromRemote", 1, <<AnyInt(0)>>)>>
  /\ s_rets = <<Called("DebugSetRegister", 1, <<>>),
                Called("DebugGetFromRemote", 1, <<ValueX>>)>>
  /\ r_seen[1] = <<DebugSetEnvelope(0, 1, ValueX), ReceiveEnvelope(1),
                   DebugGetEnvelope(0, 1), ReceiveEnvelope(1)>>
  /\ UnreadFor(1) = 0


\* C39: a remote debug call accepts only the matching reply.  At the step in
\* which DebugGetFromRemote ends, it has failed unless the reply it read has
\* exactly 2 fields with the first equal to the debug-get action code, and
\* then it returns the second field; at the step in which DebugSetRegister
\* ends, it has failed unless the reply has exactly 1 field, equal to the
\* debug-set action code.
\* the reply the waiting call is about to read from its node's channel
ReplyToRead == StreamRecv(net.up[NodeIdOf(ss, sctl.worker_id)]).args

DebugCallEnds == sctl.op \in DebugOps /\ sctl' = Idle

Matches(reply, size, action) ==
  /\ Len(reply) = size
  /\ reply[1].type_index = TypeIndex.kTVMFFIInt
  /\ IntOf(reply[1]) = action

EndsAsChecked ==
  /\ Len(s_rets') = Len(s_rets) + 1
  /\ s_rets'[Len(s_rets')].worker_id = sctl.worker_id
  /\ sctl.op = "DebugGetFromRemote" =>
       IF Matches(ReplyToRead, 2, DiscoAction.kDebugGetFromRemote)
         THEN /\ s_rets'[Len(s_rets')].op = "DebugGetFromRemote"
              /\ s_rets'[Len(s_rets')].args = <<ReplyToRead[2]>>
         ELSE s_rets'[Len(s_rets')].op = "InternalError"
  /\ sctl.op = "DebugSetRegister" =>
       IF Matches(ReplyToRead, 1, DiscoAction.kDebugSetRegister)
         THEN /\ s_rets'[Len(s_rets')].op = "DebugSetRegister"
              /\ s_rets'[Len(s_rets')].args = <<>>
         ELSE s_rets'[Len(s_rets')].op = "InternalError"

C39_OnlyMatchingReply == [][DebugCallEnds => EndsAsChecked]_vars

C39_Witness ==
  /\ ss_num_nodes = 2
  /\ ss_num_workers_per_node = 1
  /\ sctl = Idle
  /\ Len(s_calls) = 3
  /\ s_calls[1] = Called("SendPacked", 1, CmdSyncWorker(1))
  /\ s_calls[2].op = "DebugGetFromRemote"
  /\ s_calls[3].op = "DebugSetRegister"
  /\ Len(s_rets) = 2
  /\ s_rets[1] = Called("InternalError", 1,
                        <<AnyInt(DiscoAction.kSyncWorker), AnyInt(1)>>)
  /\ s_rets[2] = Called("InternalError", 1,
                        <<AnyInt(DiscoAction.kDebugGetFromRemote), AnyNone>>)


\* C40: a relay started with num_local_workers smaller than the
\* workers_per_node of the handshake has failed before it created a local
\* session and before it processed any forwarded command: it has no worker,
\* it has dispatched no envelope and written no reply, whatever was
\* forwarded to it.  A relay started with any other num_local_workers has a
\* local session of exactly workers_per_node workers, until the session is
\* destroyed.
\* the num_local_workers remote node i was started with
StartedWith(i) ==
  IntOf(SelectSeq(s_calls,
                  LAMBDA c : c.op = "RemoteSocketSession" /\ c.worker_id = i)
          [1].args[1])

StartedAsSized(i) ==
  IF StartedWith(i) < ss_num_workers_per_node
    THEN /\ rn[i].pc = "fatal"
         /\ rn[i].local_session_.workers_ = <<>>
         /\ r_seen[i] = <<>>
         /\ net.up[i] = <<>>
         /\ \A k \in WorkersOf(i + 1) : w_seen[i + 1][k] = <<>>
    ELSE /\ rn[i].num_workers_per_node_ = ss_num_workers_per_node
         /\ rn[i].pc # "destroyed" =>
              Len(rn[i].local_session_.workers_) = ss_num_workers_per_node

C40_LocalSessionSize ==
  \A i \in DOMAIN rn : rn[i].pc # "connect" => StartedAsSized(i)

C40_Witness ==
  /\ DOMAIN rn = {1}
  /\ ss_num_workers_per_node = 2
  /\ rn[1].pc = "fatal"
  /\ StartedWith(1) = 1
  /\ rn[1].local_session_.workers_ = <<>>
  /\ RingPackets(net.down[1])
       = <<SendEnvelope(2, CmdEcho(62)), ShutdownEnvelope>>
  /\ r_seen[1] = <<>>

=============================================================================
